---- MODULE Spec2Model ----
(***************************************************************************)
(* Model of export_livestock_to_csv.py (FS25 livestock exporter).          *)
(*                                                                         *)
(* A Python str is a sequence of one-character strings, so that parsing,   *)
(* formatting, stripping, lower-casing and substring search are computed   *)
(* and not assumed.  A dict is a TLA+ function whose DOMAIN is its key set.*)
(* Python's None is the value None; an Optional[float] is a float whose    *)
(* kind is "err"; a missing XML element is the element NoNode.             *)
(***************************************************************************)
EXTENDS Integers, Sequences, FiniteSets, TLC

VARIABLES
    \* _country_lookup: its four arguments and its returned pair
    code_raw, name_map, iso_map, json_map, lookup_result,
    \* _parse_area_codes_from_lua: its argument, its local body and its
    \* returned pair
    lua_text, lua_body, lua_result,
    \* derive_due_date: its four arguments and its returned string
    due_args, due_result,
    \* run_for_save: the command-line arguments and the files it reads,
    args, files,
    \* the sources it has read, the mods entries it has examined, the rows it
    \* has built and what it has written
    reads, checked, animals_rows, fetuses_rows, summary_rows, outputs,
    \* main() with --all-saves: the folders under the current directory, the
    \* list it iterates, the position of its loop and what each call did
    save_dirs, saves, save_pos, batch_log,
    \* position in the operation under study
    pc

lookupVars == <<code_raw, name_map, iso_map, json_map, lookup_result>>
luaVars == <<lua_text, lua_body, lua_result>>
dueVars == <<due_args, due_result>>
runVars == <<args, files, reads, checked, animals_rows, fetuses_rows, summary_rows, outputs>>
batchVars == <<save_dirs, saves, save_pos, batch_log>>
vars == <<lookupVars, luaVars, dueVars, runVars, batchVars, pc>>

\* None, told apart from every str: a str holds one character per position.
None == <<"None">>

\* The empty dict {}.
EmptyMap == [k \in {} |-> <<>>]

\* The empty str "".
EmptyStr == <<>>

(***************************************************************************)
(* Sequences and strings                                                   *)
(***************************************************************************)

\* All sequences over S of length at most n.
SeqsUpTo(S, n) == UNION {[1..k -> S] : k \in 0..n}

\* s[a..b] with Python slice semantics text[a:b] on 1-based positions a..b.
Slice(s, a, b) == IF a > b THEN <<>> ELSE SubSeq(s, a, b)

\* d.get(k, default)
MapGet(d, k, default) == IF k \in DOMAIN d THEN d[k] ELSE default

\* d[k] = v on a copy of d
MapPut(d, k, v) == [x \in (DOMAIN d) \cup {k} |-> IF x = k THEN v ELSE d[x]]

\* str.find(sub, start): the least 1-based position >= start where sub occurs
\* in s, 0 when there is none (Python's -1).
Find(s, sub, start) ==
    LET hits == {i \in start..(Len(s) - Len(sub) + 1) :
                    Slice(s, i, i + Len(sub) - 1) = sub}
    IN IF hits = {} THEN 0 ELSE CHOOSE i \in hits : \A j \in hits : i <= j

\* sub in s
Contains(s, sub) == Find(s, sub, 1) # 0

\* s.startswith(pre)
StartsWith(s, pre) == Len(s) >= Len(pre) /\ Slice(s, 1, Len(pre)) = pre

UpperChars == <<"A","B","C","D","E","F","G","H","I","J","K","L","M",
                "N","O","P","Q","R","S","T","U","V","W","X","Y","Z">>
LowerChars == <<"a","b","c","d","e","f","g","h","i","j","k","l","m",
                "n","o","p","q","r","s","t","u","v","w","x","y","z">>

LowerChar(c) ==
    IF \E i \in 1..Len(UpperChars) : UpperChars[i] = c
    THEN LowerChars[CHOOSE i \in 1..Len(UpperChars) : UpperChars[i] = c]
    ELSE c

\* str.lower()
Lower(s) == [i \in 1..Len(s) |-> LowerChar(s[i])]

IsSpace(c) == c = " "

\* str.strip()
Strip(s) ==
    LET keep == {i \in 1..Len(s) : ~IsSpace(s[i])}
    IN IF keep = {} THEN <<>>
       ELSE Slice(s, CHOOSE i \in keep : \A j \in keep : i <= j,
                     CHOOSE i \in keep : \A j \in keep : i >= j)

Digits == <<"0","1","2","3","4","5","6","7","8","9">>

IsDigit(c) == \E i \in 1..Len(Digits) : Digits[i] = c

DigitVal(c) == (CHOOSE i \in 1..Len(Digits) : Digits[i] = c) - 1

AllDigits(s) == \A i \in 1..Len(s) : IsDigit(s[i])

RECURSIVE DigitsVal(_)
\* the value of a non-empty string of decimal digits
DigitsVal(s) ==
    IF Len(s) = 0 THEN 0
    ELSE 10 * DigitsVal(Slice(s, 1, Len(s) - 1)) + DigitVal(s[Len(s)])

RECURSIVE Pow10(_)
Pow10(n) == IF n = 0 THEN 1 ELSE 10 * Pow10(n - 1)

RECURSIVE NatToStr(_)
NatToStr(n) ==
    IF n < 10 THEN <<Digits[n + 1]>>
    ELSE NatToStr(n \div 10) \o <<Digits[(n % 10) + 1]>>

\* str(n) for an int n
IntToStr(n) == IF n < 0 THEN <<"-">> \o NatToStr(-n) ELSE NatToStr(n)

\* n written with at least w digits, zero padded (format spec 0wd), n >= 0
RECURSIVE ZeroPad(_, _)
ZeroPad(s, w) == IF Len(s) >= w THEN s ELSE ZeroPad(<<"0">> \o s, w)

(***************************************************************************)
(* int(str) and float(str)                                                 *)
(*                                                                         *)
(* The input alphabets of this model hold digits, ".", "-", "+", " ",      *)
(* the lower-case words inf and nan, and letters that occur in no numeric  *)
(* literal.  On that alphabet the two operators below accept exactly the   *)
(* strings the Python built-ins accept (exponents, underscores and         *)
(* upper-case INF/NAN lie outside it).                                     *)
(***************************************************************************)

\* Splits an optional sign off a stripped string: <<negative, rest>>.
SplitSign(s) ==
    IF Len(s) > 0 /\ s[1] = "-" THEN <<TRUE, Tail(s)>>
    ELSE IF Len(s) > 0 /\ s[1] = "+" THEN <<FALSE, Tail(s)>>
    ELSE <<FALSE, s>>

\* int(x) for a str x: [ok |-> FALSE] stands for ValueError.
PyInt(x) ==
    LET signed(sg) ==
            IF Len(sg[2]) > 0 /\ AllDigits(sg[2])
            THEN [ok |-> TRUE,
                  val |-> IF sg[1] THEN -DigitsVal(sg[2]) ELSE DigitsVal(sg[2])]
            ELSE [ok |-> FALSE]
    IN signed(SplitSign(Strip(x)))

\* float(x) for a str x.  kind "err" stands for ValueError; a finite value is
\* the exact rational num/den (den a power of ten).
PyFloat(x) ==
    LET \* the value of the digits ip before and fp after the point
        decimal(neg, ip, fp, mag) ==
            IF AllDigits(ip) /\ AllDigits(fp) /\ Len(ip) + Len(fp) > 0
            THEN [kind |-> "fin", num |-> IF neg THEN -mag ELSE mag,
                  den |-> Pow10(Len(fp))]
            ELSE [kind |-> "err"]
        parts(neg, ip, fp) ==
            decimal(neg, ip, fp, DigitsVal(ip) * Pow10(Len(fp)) + DigitsVal(fp))
        split(neg, body, dot) ==
            IF body = <<"i","n","f">> \/ body = <<"i","n","f","i","n","i","t","y">>
            THEN [kind |-> "inf", neg |-> neg]
            ELSE IF body = <<"n","a","n">> THEN [kind |-> "nan"]
            ELSE parts(neg,
                       IF dot = 0 THEN body ELSE Slice(body, 1, dot - 1),
                       IF dot = 0 THEN <<>> ELSE Slice(body, dot + 1, Len(body)))
        signed(sg) == split(sg[1], sg[2], Find(sg[2], <<".">>, 1))
    IN signed(SplitSign(Strip(x)))

\* int(f) for a float f: truncation toward zero; OverflowError on an
\* infinity and ValueError on a NaN are [ok |-> FALSE].
FloatToInt(f) ==
    IF f.kind # "fin" THEN [ok |-> FALSE]
    ELSE [ok |-> TRUE,
          val |-> IF f.num >= 0 THEN f.num \div f.den ELSE -((-f.num) \div f.den)]

\* str(int(float(x))), the integer-normalised form of a code;
\* [ok |-> FALSE] when either conversion raises.
IntNormalise(x) ==
    LET written(i) == IF i.ok THEN [ok |-> TRUE, str |-> IntToStr(i.val)]
                      ELSE [ok |-> FALSE]
        truncated(f) == written(IF f.kind = "err" THEN [ok |-> FALSE] ELSE FloatToInt(f))
    IN truncated(PyFloat(x))

(***************************************************************************)
(* Country-code lookup                                                     *)
(***************************************************************************)

\* f"Unknown ({code_raw})"
UnknownName(raw) == <<"U","n","k","n","o","w","n"," ","(">> \o raw \o <<")">>

\* Mutant: the override map is consulted under the normalised form first.
_country_lookup_norm_first(raw, names, isos, json) ==
    LET resolve(norm) ==
            LET key == IF norm.ok THEN norm.str ELSE raw
                name0 == MapGet(names, key, EmptyStr)
                iso0 == MapGet(isos, key, EmptyStr)
                fallback == name0 = EmptyStr /\ raw \in DOMAIN names
                name == IF fallback THEN names[raw] ELSE name0
                iso == IF fallback THEN MapGet(isos, raw, iso0) ELSE iso0
            IN IF raw = EmptyStr THEN <<EmptyStr, EmptyStr>>
               ELSE IF norm.ok /\ norm.str \in DOMAIN json THEN <<json[norm.str], EmptyStr>>
               ELSE IF raw \in DOMAIN json THEN <<json[raw], EmptyStr>>
               ELSE <<IF name = EmptyStr THEN UnknownName(raw) ELSE name, iso>>
    IN resolve(IntNormalise(raw))

\* Mutant: the Unknown name is always paired with an empty ISO code.
_country_lookup_blank_iso(raw, names, isos, json) ==
    LET resolve(norm) ==
            LET key == IF norm.ok THEN norm.str ELSE raw
                name0 == MapGet(names, key, EmptyStr)
                iso0 == MapGet(isos, key, EmptyStr)
                fallback == name0 = EmptyStr /\ raw \in DOMAIN names
                name == IF fallback THEN names[raw] ELSE name0
                iso == IF fallback THEN MapGet(isos, raw, iso0) ELSE iso0
            IN IF raw = EmptyStr THEN <<EmptyStr, EmptyStr>>
               ELSE IF raw \in DOMAIN json THEN <<json[raw], EmptyStr>>
               ELSE IF norm.ok /\ norm.str \in DOMAIN json THEN <<json[norm.str], EmptyStr>>
               ELSE IF name = EmptyStr THEN <<UnknownName(raw), EmptyStr>>
               ELSE <<name, iso>>
    IN resolve(IntNormalise(raw))

\* _country_lookup(code_raw, name_map, iso_map, json_map) -> (name, iso)
_country_lookup(raw, names, isos, json) ==
    LET resolve(norm) ==
            LET key == IF norm.ok THEN norm.str ELSE raw
                name0 == MapGet(names, key, EmptyStr)
                iso0 == MapGet(isos, key, EmptyStr)
                fallback == name0 = EmptyStr /\ raw \in DOMAIN names
                name == IF fallback THEN names[raw] ELSE name0
                iso == IF fallback THEN MapGet(isos, raw, iso0) ELSE iso0
            IN IF raw = EmptyStr THEN <<EmptyStr, EmptyStr>>
               ELSE IF raw \in DOMAIN json THEN <<json[raw], EmptyStr>>
               ELSE IF norm.ok /\ norm.str \in DOMAIN json THEN <<json[norm.str], EmptyStr>>
               ELSE <<IF name = EmptyStr THEN UnknownName(raw) ELSE name, iso>>
    IN resolve(IntNormalise(raw))

(***************************************************************************)
(* The AREA_CODES table of RealisticLivestock.lua                          *)
(*                                                                         *)
(* The Lua source text is a sequence of lexical chunks; the Python str is  *)
(* their concatenation.  The chunks are the ones the scanner and its       *)
(* regular expressions tell apart: the header AREA_CODES, an opening       *)
(* brace, a closing brace, an entry index [1] =, a pair ["country"]="X"    *)
(* and a pair ["code"]="US".                                               *)
(***************************************************************************)

LuaHeader == "AREA_CODES"
LuaOpen == "{"
LuaClose == "}"
LuaIndex == "[1]="
LuaCountry == "[\"country\"]=\"X\""
LuaCode == "[\"code\"]=\"US\""

\* group(1) of the entry pattern \[\s*(\d+)\s*\] on an index chunk
IndexDigits(chunk) == <<"1">>

\* group(1) of the ["country"] pattern on a country chunk
CountryValue(chunk) == <<"X">>

\* group(1) of the ["code"] pattern on a code chunk
CodeValue(chunk) == <<"U","S">>

\* Mutant: a scan that runs off the end returns the rest of the text.
RECURSIVE BraceScanRest(_, _, _, _)
BraceScanRest(text, j, k, depth) ==
    IF k > Len(text) THEN Slice(text, j + 1, Len(text))
    ELSE IF text[k] = LuaOpen THEN BraceScanRest(text, j, k + 1, depth + 1)
    ELSE IF text[k] = LuaClose
         THEN IF depth - 1 = 0 THEN Slice(text, j + 1, k - 1)
              ELSE BraceScanRest(text, j, k + 1, depth - 1)
    ELSE BraceScanRest(text, j, k + 1, depth)

\* Mutant: a scan without the depth counter, ending at the first '}'.
RECURSIVE BraceScanFlat(_, _, _, _)
BraceScanFlat(text, j, k, depth) ==
    IF k > Len(text) THEN None
    ELSE IF text[k] = LuaClose THEN Slice(text, j + 1, k - 1)
    ELSE BraceScanFlat(text, j, k + 1, depth)

\* The loop of _brace_body from position k with the depth counter so far:
\* the body text[j+1:k] at the first '}' that brings the depth to zero, None
\* when the text ends first.
RECURSIVE BraceScan(_, _, _, _)
BraceScan(text, j, k, depth) ==
    IF k > Len(text) THEN None
    ELSE IF text[k] = LuaOpen THEN BraceScan(text, j, k + 1, depth + 1)
    ELSE IF text[k] = LuaClose
         THEN IF depth - 1 = 0 THEN Slice(text, j + 1, k - 1)
              ELSE BraceScan(text, j, k + 1, depth - 1)
    ELSE BraceScan(text, j, k + 1, depth)

\* _brace_body(text, header) -> Optional[str]
_brace_body(text, header) ==
    LET i == Find(text, <<header>>, 1)
        j == IF i = 0 THEN 0 ELSE Find(text, <<LuaOpen>>, i)
    IN IF i = 0 THEN None
       ELSE IF j = 0 THEN None
       ELSE BraceScan(text, j, j, 0)

\* re.search of the ["country"] pattern in an entry body: the first match's
\* group(1), None without a match.
SearchCountry(sub) ==
    LET at == Find(sub, <<LuaCountry>>, 1)
    IN IF at = 0 THEN None ELSE CountryValue(sub[at])

\* re.search of the ["code"] pattern in an entry body
SearchCode(sub) ==
    LET at == Find(sub, <<LuaCode>>, 1)
    IN IF at = 0 THEN None ELSE CodeValue(sub[at])

\* re.finditer of \[\s*(\d+)\s*\]\s*=\s*{(.*?)} over body from position p,
\* left to right without overlap, filling the two maps entry by entry.
RECURSIVE ScanEntries(_, _, _, _)
ScanEntries(body, p, names, isos) ==
    IF p > Len(body) THEN <<names, isos>>
    ELSE LET q == IF body[p] = LuaIndex /\ p + 1 <= Len(body)
                     /\ body[p + 1] = LuaOpen
                  THEN Find(body, <<LuaClose>>, p + 2)
                  ELSE 0
         IN IF q = 0 THEN ScanEntries(body, p + 1, names, isos)
            ELSE LET idx == IndexDigits(body[p])
                     sub == Slice(body, p + 2, q - 1)
                     m_code == SearchCode(sub)
                     m_name == SearchCountry(sub)
                 IN ScanEntries(body, q + 1,
                        IF m_name # None THEN MapPut(names, idx, m_name) ELSE names,
                        IF m_code # None THEN MapPut(isos, idx, m_code) ELSE isos)

\* _parse_area_codes_from_lua(lua_text) -> (name_map, iso_map)
_parse_area_codes_from_lua(text) ==
    LET body == _brace_body(text, LuaHeader)
    IN IF body = None \/ body = <<>> THEN <<EmptyMap, EmptyMap>>
       ELSE ScanEntries(body, 1, EmptyMap, EmptyMap)

(***************************************************************************)
(* Derivation functions                                                    *)
(*                                                                         *)
(* datetime.date is the proleptic Gregorian calendar over the years 1 to   *)
(* 9999; a date is <<year, month, day>> and its ordinal counts days from   *)
(* 0001-01-01 = 1.                                                          *)
(***************************************************************************)

\* calendar rule behind date(): year % 4 == 0 and (year % 100 != 0 or year % 400 == 0)
IsLeapYear(y) == y % 4 = 0 /\ (y % 100 # 0 \/ y % 400 = 0)

DaysInMonthTable == <<31, 28, 31, 30, 31, 30, 31, 31, 30, 31, 30, 31>>

DaysInMonth(y, m) == IF m = 2 /\ IsLeapYear(y) THEN 29 ELSE DaysInMonthTable[m]

\* days in the years before year y
DaysBeforeYear(y) ==
    (y - 1) * 365 + (y - 1) \div 4 - (y - 1) \div 100 + (y - 1) \div 400

RECURSIVE SumDays(_)
SumDays(m) == IF m = 0 THEN 0 ELSE DaysInMonthTable[m] + SumDays(m - 1)

\* Mutant: the leap day is left out of the days before a month.
DaysBeforeMonthNoLeap(y, m) == SumDays(m - 1)

\* days of year y before the first of month m
DaysBeforeMonth(y, m) == SumDays(m - 1) + (IF m > 2 /\ IsLeapYear(y) THEN 1 ELSE 0)

\* date(y, m, d) is accepted (no ValueError)
ValidDate(y, m, d) ==
    /\ 1 <= y /\ y <= 9999
    /\ 1 <= m /\ m <= 12
    /\ 1 <= d /\ d <= DaysInMonth(y, m)

\* date.toordinal()
ToOrdinal(y, m, d) == DaysBeforeYear(y) + DaysBeforeMonth(y, m) + d

\* date.max.toordinal()
MaxOrdinal == ToOrdinal(9999, 12, 31)

\* date.fromordinal(n), for 1 <= n <= MaxOrdinal: the 400/100/4/1-year
\* cycle decomposition of the ordinal.
FromOrdinal(ord) ==
    LET n0 == ord - 1
        n400 == n0 \div 146097
        r400 == n0 % 146097
        n100 == r400 \div 36524
        r100 == r400 % 36524
        n4 == r100 \div 1461
        r4 == r100 % 1461
        n1 == r4 \div 365
        n == r4 % 365
        year == n400 * 400 + 1 + n100 * 100 + n4 * 4 + n1
        leapyear == n1 = 3 /\ (n4 # 24 \/ n100 = 3)
        month0 == (n + 50) \div 32
        before(mm) == SumDays(mm - 1) + (IF mm > 2 /\ leapyear THEN 1 ELSE 0)
        month == IF before(month0) > n THEN month0 - 1 ELSE month0
    IN IF n1 = 4 \/ n100 = 4 THEN <<year - 1, 12, 31>>
       ELSE <<year, month, n - before(month) + 1>>

\* date.isoformat(): "%04d-%02d-%02d"
IsoFormat(dt) ==
    ZeroPad(NatToStr(dt[1]), 4) \o <<"-">> \o ZeroPad(NatToStr(dt[2]), 2)
        \o <<"-">> \o ZeroPad(NatToStr(dt[3]), 2)

\* derive_due_date(y, m, d, duration_str) -> str; every exception raised
\* inside gives "".
derive_due_date(y, m, d, duration_str) ==
    LET y2 == PyInt(y)
        m2 == PyInt(m)
        d2 == PyInt(d)
        f == PyFloat(duration_str)
        dur == IF f.kind = "err" THEN [ok |-> FALSE] ELSE FloatToInt(f)
    IN IF y = EmptyStr \/ m = EmptyStr \/ d = EmptyStr \/ duration_str = EmptyStr
       THEN EmptyStr
       ELSE IF ~(y2.ok /\ m2.ok /\ d2.ok) THEN EmptyStr
       ELSE IF ~dur.ok THEN EmptyStr
       ELSE IF ~ValidDate(y2.val, m2.val, d2.val) THEN EmptyStr
       ELSE LET o == ToOrdinal(y2.val, m2.val, d2.val) + dur.val
            IN IF 0 < o /\ o <= MaxOrdinal THEN IsoFormat(FromOrdinal(o))
               ELSE EmptyStr

(***************************************************************************)
(* Floats as the exact values of their decimal literals                    *)
(***************************************************************************)

\* n/d rounded to the nearest integer, ties to even (d > 0): round(x) and
\* the rounding of the format spec .2f.
RoundHalfEven(n, d) ==
    LET q == n \div d
        r == n - q * d
    IN IF 2 * r < d THEN q
       ELSE IF 2 * r > d THEN q + 1
       ELSE IF q % 2 = 0 THEN q ELSE q + 1

\* safe_float(x) -> Optional[float]: the float, of kind "err" for None
safe_float(x) == PyFloat(x)

\* f"{x:.2f}" for a float x
FormatFixed2(f) ==
    IF f.kind = "nan" THEN <<"n","a","n">>
    ELSE IF f.kind = "inf"
         THEN (IF f.neg THEN <<"-">> ELSE <<>>) \o <<"i","n","f">>
    ELSE LET mag == IF f.num < 0 THEN -f.num ELSE f.num
             q == RoundHalfEven(100 * mag, f.den)
         IN (IF f.num < 0 THEN <<"-">> ELSE <<>>)
                \o NatToStr(q \div 100) \o <<".">> \o ZeroPad(NatToStr(q % 100), 2)

\* fmt_num(x, nd=2) -> str
fmt_num(x) == IF x.kind = "err" THEN EmptyStr ELSE FormatFixed2(x)

\* x / k for a float x and a positive number k
FloatDiv(f, k) ==
    IF f.kind = "fin" THEN [kind |-> "fin", num |-> f.num, den |-> f.den * k] ELSE f

\* x + y for floats
FloatAdd(f, g) ==
    IF f.kind = "nan" \/ g.kind = "nan" THEN [kind |-> "nan"]
    ELSE IF f.kind = "inf" /\ g.kind = "inf"
         THEN IF f.neg = g.neg THEN f ELSE [kind |-> "nan"]
    ELSE IF f.kind = "inf" THEN f
    ELSE IF g.kind = "inf" THEN g
    ELSE [kind |-> "fin", num |-> f.num * g.den + g.num * f.den, den |-> f.den * g.den]

RECURSIVE FloatSum(_)
\* sum(arr) for a list of floats
FloatSum(arr) ==
    IF Len(arr) = 0 THEN [kind |-> "fin", num |-> 0, den |-> 1]
    ELSE FloatAdd(FloatSum(Slice(arr, 1, Len(arr) - 1)), arr[Len(arr)])

\* The exception marker: the call raised and nothing caught it.
Raise == <<"Raise">>

\* derive_age_days(months_str) -> str; int(round(.)) raises OverflowError
\* on an infinity and ValueError on a NaN.
derive_age_days(months_str) ==
    LET m == safe_float(months_str)
    IN IF m.kind = "err" THEN EmptyStr
       ELSE IF m.kind # "fin" THEN Raise
       ELSE IntToStr(RoundHalfEven(m.num * 30, m.den))

\* derive_age_years(months_str) -> str
derive_age_years(months_str) ==
    LET m == safe_float(months_str)
    IN IF m.kind = "err" THEN EmptyStr ELSE FormatFixed2(FloatDiv(m, 12))

(***************************************************************************)
(* Species                                                                 *)
(***************************************************************************)

s_cows == <<"c","o","w","s">>
s_sheep == <<"s","h","e","e","p">>
s_pigs == <<"p","i","g","s">>
s_chickens == <<"c","h","i","c","k","e","n","s">>
s_goats == <<"g","o","a","t","s">>
s_horses == <<"h","o","r","s","e","s">>

\* SPECIES_KEYS in insertion order: <<keyword, tag>>
SPECIES_KEYS ==
    << <<<<"c","o","w">>, s_cows>>, <<<<"c","a","t","t","l","e">>, s_cows>>,
       <<<<"b","e","e","f">>, s_cows>>,
       <<<<"s","h","e","e","p">>, s_sheep>>, <<<<"l","a","m","b">>, s_sheep>>,
       <<<<"o","v","i","n","e">>, s_sheep>>,
       <<<<"p","i","g">>, s_pigs>>, <<<<"h","o","g">>, s_pigs>>,
       <<<<"s","w","i","n","e">>, s_pigs>>, <<<<"p","o","r","c","i","n","e">>, s_pigs>>,
       <<<<"c","h","i","c","k","e","n">>, s_chickens>>, <<<<"h","e","n">>, s_chickens>>,
       <<<<"p","o","u","l","t","r","y">>, s_chickens>>,
       <<<<"g","o","a","t">>, s_goats>>, <<<<"c","a","p","r","i","n","e">>, s_goats>>,
       <<<<"h","o","r","s","e">>, s_horses>>, <<<<"e","q","u","i","n","e">>, s_horses>> >>

\* SPECIES_KEYS.values()
SpeciesTags == {SPECIES_KEYS[i][2] : i \in 1..Len(SPECIES_KEYS)}

\* for k, v in SPECIES_KEYS.items(): if k in text: return v -- the tag of the
\* first keyword found in text, EmptyStr when the loop ends without one.
FirstSpeciesIn(text) ==
    LET first(hits) ==
            IF hits = {} THEN EmptyStr
            ELSE SPECIES_KEYS[CHOOSE i \in hits : \A j \in hits : i <= j][2]
    IN first({i \in 1..Len(SPECIES_KEYS) : Contains(text, SPECIES_KEYS[i][1])})

\* SPECIES_KEYS.get(k, k)
SpeciesGet(k) ==
    LET hits == {i \in 1..Len(SPECIES_KEYS) : SPECIES_KEYS[i][1] = k}
    IN IF hits = {} THEN k ELSE SPECIES_KEYS[CHOOSE i \in hits : TRUE][2]

\* The result of find() or _child() when there is no such element.
NoNode == [tag |-> "None"]

Missing(elem) == elem.tag = "None"

\* _text(elem): the stripped text of an element, "" for a missing element
\* or a missing text.
_text(elem) == IF Missing(elem) THEN EmptyStr ELSE Strip(elem.text)

\* a or b for two strings
StrOr(a, b) == IF a # EmptyStr THEN a ELSE b

\* _basename_or(val, fallback): os.path.basename(val) if val else fallback
_basename_or(val, fallback) ==
    LET seps == {i \in 1..Len(val) : val[i] = "/"}
    IN IF val = EmptyStr THEN fallback
       ELSE IF seps = {} THEN val
       ELSE Slice(val, (CHOOSE i \in seps : \A j \in seps : i >= j) + 1, Len(val))

\* Mutant: the type label of the placeable is consulted before the type of
\* the animal.
infer_species_label_first(placeable, shed_file, animal) ==
    LET first(own, pt, lf) ==
            IF pt # EmptyStr THEN pt
            ELSE IF own # EmptyStr THEN own
            ELSE lf
        typed(t) ==
            first(IF t # EmptyStr THEN FirstSpeciesIn(Lower(t)) ELSE EmptyStr,
                  FirstSpeciesIn(Lower(_text(placeable.type))),
                  FirstSpeciesIn(Lower(shed_file)))
    IN typed(StrOr(animal.type, animal.animalType))

\* infer_species(placeable, shed_file, animal) -> str
infer_species(placeable, shed_file, animal) ==
    LET first(own, pt, lf) ==
            IF own # EmptyStr THEN own
            ELSE IF pt # EmptyStr THEN pt
            ELSE lf
        typed(t) ==
            first(IF t # EmptyStr THEN FirstSpeciesIn(Lower(t)) ELSE EmptyStr,
                  FirstSpeciesIn(Lower(_text(placeable.type))),
                  FirstSpeciesIn(Lower(shed_file)))
    IN typed(StrOr(animal.type, animal.animalType))

\* s.split(","): the pieces of s between commas
RECURSIVE SplitCommas(_)
SplitCommas(s) ==
    LET c == Find(s, <<",">>, 1)
    IN IF c = 0 THEN <<s>>
       ELSE <<Slice(s, 1, c - 1)>> \o SplitCommas(Slice(s, c + 1, Len(s)))

\* the second loop of normalize_species_list: drop repeats, keep first-seen order
RECURSIVE Dedup(_)
Dedup(l) ==
    IF Len(l) = 0 THEN <<>>
    ELSE LET front == Dedup(Slice(l, 1, Len(l) - 1))
         IN IF \E i \in 1..Len(front) : front[i] = l[Len(l)] THEN front
            ELSE Append(front, l[Len(l)])

\* the first loop of normalize_species_list over the split pieces
RECURSIVE NormalizePieces(_)
NormalizePieces(pieces) ==
    IF Len(pieces) = 0 THEN <<>>
    ELSE LET k == Lower(Strip(pieces[1]))
             rest == NormalizePieces(Tail(pieces))
         IN IF k = EmptyStr THEN rest
            ELSE <<IF k \in SpeciesTags THEN k ELSE SpeciesGet(k)>> \o rest

\* normalize_species_list(s) -> List[str]
normalize_species_list(s) == Dedup(NormalizePieces(SplitCommas(s)))

(***************************************************************************)
(* The save document                                                       *)
(*                                                                         *)
(* An element is a record of its attributes (a missing attribute is "",    *)
(* which is what _get_attr returns for it) and of its child elements       *)
(* (NoNode for a missing child).                                           *)
(***************************************************************************)

\* _genetics(elem) -> Dict[str, str]
_genetics(elem) ==
    LET g == elem.genetics
    IN IF Missing(g)
       THEN [metabolism |-> EmptyStr, quality |-> EmptyStr, health |-> EmptyStr,
             fertility |-> EmptyStr, productivity |-> EmptyStr]
       ELSE [metabolism |-> g.metabolism, quality |-> g.quality, health |-> g.health,
             fertility |-> g.fertility, productivity |-> g.productivity]

\* The per-placeable values computed at the top of the placeable loop.
PlaceableContext(plc) ==
    LET placeable_id == StrOr(plc.id, plc.uniqueId)
    IN [shed_file |-> plc.filename,
        placeable_id |-> placeable_id,
        current_shed |-> _basename_or(plc.filename,
                                      StrOr(placeable_id, <<"H","u","s","b","a","n","d","r","y">>)),
        shed_type |-> StrOr(_text(plc.type), _basename_or(plc.filename, EmptyStr))]

\* The row of ANIMAL_COLUMNS built for one animal that passed the filters.
AnimalRow(ctx, species, animal, names, isos, json) ==
    LET bday == animal.birthday
        preg == animal.pregnancy
        country == IF Missing(bday) THEN EmptyStr ELSE bday.country
        pregnancies == IF Missing(preg) THEN NoNode ELSE preg.pregnancies
        fetus_count == IF Missing(pregnancies) THEN 0 ELSE Len(pregnancies.items)
        row(agen, found) ==
       [placeable_id |-> ctx.placeable_id,
        current_shed |-> ctx.current_shed,
        shed_type |-> ctx.shed_type,
        species |-> species,
        breed |-> animal.subType,
        FarmID |-> animal.farmId,
        unique_id |-> animal.id,
        name |-> animal.name,
        sex |-> animal.gender,
        age |-> animal.age,
        age_days |-> derive_age_days(animal.age),
        age_years |-> derive_age_years(animal.age),
        weight |-> animal.weight,
        animal_health |-> animal.health,
        animal_gen_metabolism |-> agen.metabolism,
        animal_gen_quality |-> agen.quality,
        animal_gen_health |-> agen.health,
        animal_gen_fertility |-> agen.fertility,
        animal_gen_productivity |-> agen.productivity,
        birthday_day |-> IF Missing(bday) THEN EmptyStr ELSE bday.day,
        birthday_month |-> IF Missing(bday) THEN EmptyStr ELSE bday.month,
        birthday_year |-> IF Missing(bday) THEN EmptyStr ELSE bday.year,
        country |-> country,
        country_name |-> IF Missing(bday) THEN EmptyStr ELSE found[1],
        country_iso |-> IF Missing(bday) THEN EmptyStr ELSE found[2],
        is_parent |-> animal.isParent,
        is_pregnant |-> animal.isPregnant,
        preg_day |-> IF Missing(preg) THEN EmptyStr ELSE preg.day,
        preg_month |-> IF Missing(preg) THEN EmptyStr ELSE preg.month,
        preg_year |-> IF Missing(preg) THEN EmptyStr ELSE preg.year,
        preg_duration |-> IF Missing(preg) THEN EmptyStr ELSE preg.duration,
        preg_due_date |-> IF Missing(preg) THEN EmptyStr
                          ELSE derive_due_date(preg.year, preg.month, preg.day, preg.duration),
        preg_fetus_count |-> IF Missing(preg) THEN EmptyStr ELSE IntToStr(fetus_count),
        purchase_date |-> EmptyStr,
        purchase_price |-> EmptyStr]
    IN row(_genetics(animal), _country_lookup(country, names, isos, json))

\* Mutant: a fetus row does not carry the country of its mother.
FetusRowBlankCountry(ctx, species, row, fetus, idx) ==
    [mother_unique_id |-> row.unique_id,
     current_shed |-> ctx.current_shed,
     shed_type |-> ctx.shed_type,
     species |-> species,
     mother_breed |-> row.breed,
     fetus_index |-> IntToStr(idx),
     sex |-> fetus.gender,
     breed |-> fetus.subType,
     health |-> fetus.health,
     gen_metabolism |-> _genetics(fetus).metabolism,
     gen_quality |-> _genetics(fetus).quality,
     gen_health |-> _genetics(fetus).health,
     gen_fertility |-> _genetics(fetus).fertility,
     gen_productivity |-> _genetics(fetus).productivity,
     due_date |-> row.preg_due_date,
     preg_day |-> row.preg_day,
     preg_month |-> row.preg_month,
     preg_year |-> row.preg_year,
     preg_duration |-> row.preg_duration,
     FarmID |-> row.FarmID,
     country |-> EmptyStr,
     country_name |-> EmptyStr,
     country_iso |-> EmptyStr]

\* The row of FETUS_COLUMNS built for the idx-th nested pregnancy entry.
FetusRow(ctx, species, row, fetus, idx) ==
    LET fg == _genetics(fetus)
    IN [mother_unique_id |-> row.unique_id,
        current_shed |-> ctx.current_shed,
        shed_type |-> ctx.shed_type,
        species |-> species,
        mother_breed |-> row.breed,
        fetus_index |-> IntToStr(idx),
        sex |-> fetus.gender,
        breed |-> fetus.subType,
        health |-> fetus.health,
        gen_metabolism |-> fg.metabolism,
        gen_quality |-> fg.quality,
        gen_health |-> fg.health,
        gen_fertility |-> fg.fertility,
        gen_productivity |-> fg.productivity,
        due_date |-> row.preg_due_date,
        preg_day |-> row.preg_day,
        preg_month |-> row.preg_month,
        preg_year |-> row.preg_year,
        preg_duration |-> row.preg_duration,
        FarmID |-> row.FarmID,
        country |-> row.country,
        country_name |-> row.country_name,
        country_iso |-> row.country_iso]

\* Mutant: only the first nested entry of a pregnancy gets a fetus row.
FetusRowsOfFirst(ctx, species, row, animal) ==
    LET preg == animal.pregnancy
        pregnancies == IF Missing(preg) THEN NoNode ELSE preg.pregnancies
    IN IF Missing(pregnancies) \/ Len(pregnancies.items) = 0 THEN <<>>
       ELSE <<FetusRow(ctx, species, row, pregnancies.items[1], 1)>>

\* The fetus rows appended for one animal, in document order.
FetusRowsOf(ctx, species, row, animal) ==
    LET preg == animal.pregnancy
        pregnancies == IF Missing(preg) THEN NoNode ELSE preg.pregnancies
    IN IF Missing(pregnancies) THEN <<>>
       ELSE [idx \in 1..Len(pregnancies.items) |->
                FetusRow(ctx, species, row, pregnancies.items[idx], idx)]

\* Mutant: an unclassified animal is filtered out as well.
SpeciesSkipUnclassified(species_filter, species) ==
    /\ species_filter # None
    /\ Len(species_filter) > 0
    /\ ~\E i \in 1..Len(species_filter) : species_filter[i] = species

\* if species_filter and species and (species not in species_filter): continue
SpeciesSkip(species_filter, species) ==
    /\ species_filter # None
    /\ Len(species_filter) > 0
    /\ species # EmptyStr
    /\ ~\E i \in 1..Len(species_filter) : species_filter[i] = species

\* if farmid_filter and _get_attr(animal, "farmId") != str(farmid_filter): continue
FarmSkip(farmid_filter, animal) ==
    /\ farmid_filter # None
    /\ farmid_filter # EmptyStr
    /\ animal.farmId # farmid_filter

\* One pass of the animal loop body: whether the animal is skipped, whether
\* building its row raises, and the rows it appends.
ParseAnimal(plc, animal, names, isos, json, species_filter, farmid_filter) ==
    LET appended(ctx, species, row) ==
            [raised |-> FALSE, animals |-> <<row>>,
             fetuses |-> FetusRowsOf(ctx, species, row, animal)]
        built(ctx, species, skip, raised) ==
            IF skip THEN [raised |-> FALSE, animals |-> <<>>, fetuses |-> <<>>]
            ELSE IF raised THEN [raised |-> TRUE, animals |-> <<>>, fetuses |-> <<>>]
            ELSE appended(ctx, species,
                          AnimalRow(ctx, species, animal, names, isos, json))
        filtered(ctx, species) ==
            built(ctx, species,
                  SpeciesSkip(species_filter, species) \/ FarmSkip(farmid_filter, animal),
                  derive_age_days(animal.age) = Raise)
    IN filtered(PlaceableContext(plc), infer_species(plc, plc.filename, animal))

\* Mutant: the rows of the later stretch are put in front.
ParseJoinSwapped(a, b) ==
    IF a.raised THEN a
    ELSE [raised |-> b.raised,
          animals |-> b.animals \o a.animals,
          fetuses |-> b.fetuses \o a.fetuses]

\* The rows of two consecutive stretches of the traversal; an exception in
\* the first stretch ends the traversal there.
ParseJoin(a, b) ==
    IF a.raised THEN a
    ELSE [raised |-> b.raised,
          animals |-> a.animals \o b.animals,
          fetuses |-> a.fetuses \o b.fetuses]

ParseNothing == [raised |-> FALSE, animals |-> <<>>, fetuses |-> <<>>]

\* for animal in clusters.findall("animal"): ...
RECURSIVE ParseAnimals(_, _, _, _, _, _, _)
ParseAnimals(plc, animals, names, isos, json, species_filter, farmid_filter) ==
    IF Len(animals) = 0 THEN ParseNothing
    ELSE ParseJoin(
            ParseAnimal(plc, animals[1], names, isos, json, species_filter, farmid_filter),
            ParseAnimals(plc, Tail(animals), names, isos, json, species_filter,
                         farmid_filter))

\* for plc in root.findall("placeable"): ...
RECURSIVE ParsePlaceablesFrom(_, _, _, _, _, _)
ParsePlaceablesFrom(placeables, names, isos, json, species_filter, farmid_filter) ==
    IF Len(placeables) = 0 THEN ParseNothing
    ELSE LET plc == placeables[1]
             ha == plc.husbandryAnimals
             here == IF Missing(ha) THEN ParseNothing
                     ELSE IF Missing(ha.clusters) THEN ParseNothing
                     ELSE ParseAnimals(plc, ha.clusters.animals, names, isos, json,
                                       species_filter, farmid_filter)
         IN ParseJoin(here,
                ParsePlaceablesFrom(Tail(placeables), names, isos, json,
                                    species_filter, farmid_filter))

\* parse_placeables(...) -> (animals_rows, fetuses_rows), or an exception.
\* A document ET.parse rejects gives ([], []).
parse_placeables(document, names, isos, json, species_filter, farmid_filter) ==
    IF ~document.wellformed THEN ParseNothing
    ELSE ParsePlaceablesFrom(document.placeables, names, isos, json,
                             species_filter, farmid_filter)

(***************************************************************************)
(* Summaries                                                               *)
(***************************************************************************)

\* The characters of the model's strings in code-point order.
CharOrder ==
    <<" ", "(", ")", "+", ",", "-", ".", "/">> \o Digits \o UpperChars \o LowerChars

CharRank(c) == CHOOSE i \in 1..Len(CharOrder) : CharOrder[i] = c

\* a < b for two strings
RECURSIVE StrLess(_, _)
StrLess(a, b) ==
    IF Len(b) = 0 THEN FALSE
    ELSE IF Len(a) = 0 THEN TRUE
    ELSE IF a[1] = b[1] THEN StrLess(Tail(a), Tail(b))
    ELSE CharRank(a[1]) < CharRank(b[1])

\* the sort key of a summary row
SortKey(r) == <<r.current_shed, r.species, r.breed>>

\* a < b for two sort keys (tuples compare position by position)
KeyLess(a, b) ==
    \/ StrLess(a[1], b[1])
    \/ a[1] = b[1] /\ StrLess(a[2], b[2])
    \/ a[1] = b[1] /\ a[2] = b[2] /\ StrLess(a[3], b[3])

\* list.sort(key=...): a stable sort, by inserting each row behind the
\* rows that do not sort after it.
RECURSIVE StableSort(_)
StableSort(rows) ==
    IF Len(rows) = 0 THEN <<>>
    ELSE LET front == StableSort(Slice(rows, 1, Len(rows) - 1))
             x == rows[Len(rows)]
             keep == {i \in 1..Len(front) : ~KeyLess(SortKey(x), SortKey(front[i]))}
             at == IF keep = {} THEN 0 ELSE CHOOSE i \in keep : \A j \in keep : i >= j
         IN Slice(front, 1, at) \o <<x>> \o Slice(front, at + 1, Len(front))

\* Mutant: the rows stay in the order their groups were first seen.
NoSort(rows) == rows

\* summary_rows.sort(key=lambda r: (r["current_shed"], r["species"], r["breed"]))
SortSummary(rows) == StableSort(rows)

\* the grouping key of an animal row
GroupKey(r) == <<r.current_shed, r.shed_type, r.species, r.breed>>

\* the keys of the groups dict, in insertion (first-seen) order
RECURSIVE GroupKeys(_)
GroupKeys(rows) ==
    IF Len(rows) = 0 THEN <<>>
    ELSE LET front == GroupKeys(Slice(rows, 1, Len(rows) - 1))
             k == GroupKey(rows[Len(rows)])
         IN IF \E i \in 1..Len(front) : front[i] = k THEN front ELSE Append(front, k)

\* Mutant: a group keeps only its first row.
RECURSIVE GroupItemsFirst(_, _)
GroupItemsFirst(rows, key) ==
    IF Len(rows) = 0 THEN <<>>
    ELSE IF GroupKey(rows[1]) = key THEN <<rows[1]>>
    ELSE GroupItemsFirst(Tail(rows), key)

\* groups[key]: the rows of one group, in input order
RECURSIVE GroupItems(_, _)
GroupItems(rows, key) ==
    IF Len(rows) = 0 THEN <<>>
    ELSE IF GroupKey(rows[1]) = key
         THEN <<rows[1]>> \o GroupItems(Tail(rows), key)
         ELSE GroupItems(Tail(rows), key)

\* _to_float(x) -> Optional[float]
_to_float(x) == IF x = EmptyStr THEN [kind |-> "err"] ELSE PyFloat(x)

\* Mutant: a value that does not parse counts as 0.
ParsedValuesZero(strs) ==
    [i \in 1..Len(strs) |->
        IF _to_float(strs[i]).kind = "err" THEN [kind |-> "fin", num |-> 0, den |-> 1]
        ELSE _to_float(strs[i])]

\* [_to_float(v) for v in strs if _to_float(v) is not None]
RECURSIVE ParsedValues(_)
ParsedValues(strs) ==
    IF Len(strs) = 0 THEN <<>>
    ELSE IF _to_float(strs[1]).kind = "err" THEN ParsedValues(Tail(strs))
    ELSE <<_to_float(strs[1])>> \o ParsedValues(Tail(strs))

\* avg(arr): sum(arr)/len(arr) if arr else None
avg(arr) ==
    IF Len(arr) = 0 THEN [kind |-> "err"] ELSE FloatDiv(FloatSum(arr), Len(arr))

\* (it.get("is_pregnant") or "").lower() in ("true", "1", "yes", "on")
IsPregnantFlag(v) ==
    Lower(v) \in {<<"t","r","u","e">>, <<"1">>, <<"y","e","s">>, <<"o","n">>}

RECURSIVE SumInts(_)
SumInts(l) == IF Len(l) = 0 THEN 0 ELSE l[1] + SumInts(Tail(l))

\* int(it.get("preg_fetus_count") or "0")
FetusCountOf(it) ==
    PyInt(IF it.preg_fetus_count = EmptyStr THEN <<"0">> ELSE it.preg_fetus_count).val

\* The row of SUMMARY_COLUMNS built for one group.
SummaryRow(key, items) ==
    LET col(name) == [i \in 1..Len(items) |-> items[i][name]]
        ages == ParsedValues(col("age"))
    IN [current_shed |-> key[1],
        shed_type |-> key[2],
        species |-> key[3],
        breed |-> key[4],
        animals_count |-> IntToStr(Len(items)),
        pregnant_count |->
            IntToStr(Cardinality({i \in 1..Len(items) : IsPregnantFlag(items[i].is_pregnant)})),
        avg_age_months |-> fmt_num(avg(ages)),
        avg_age_years |-> fmt_num(IF Len(ages) > 0 THEN FloatDiv(avg(ages), 12)
                                  ELSE [kind |-> "err"]),
        avg_health |-> fmt_num(avg(ParsedValues(col("animal_health")))),
        avg_gen_metabolism |-> fmt_num(avg(ParsedValues(col("animal_gen_metabolism")))),
        avg_gen_quality |-> fmt_num(avg(ParsedValues(col("animal_gen_quality")))),
        avg_gen_health |-> fmt_num(avg(ParsedValues(col("animal_gen_health")))),
        avg_gen_fertility |-> fmt_num(avg(ParsedValues(col("animal_gen_fertility")))),
        avg_gen_productivity |-> fmt_num(avg(ParsedValues(col("animal_gen_productivity")))),
        total_fetuses |-> IntToStr(SumInts([i \in 1..Len(items) |-> FetusCountOf(items[i])]))]

\* summarize(animals_rows) -> List[Dict[str, str]]
summarize(rows) ==
    LET keys == GroupKeys(rows)
    IN SortSummary([g \in 1..Len(keys) |-> SummaryRow(keys[g], GroupItems(rows, keys[g]))])

(***************************************************************************)
(* Country-code sources and run_for_save                                   *)
(*                                                                         *)
(* What lies at a path is [name, fs, luas]: its name, whether it is a      *)
(* directory ("dir"), a regular file ("file") or neither ("none"), and the *)
(* texts of the files named RealisticLivestock.lua inside it in the order  *)
(* os.walk or namelist yields them; a text that cannot be read, or an      *)
(* archive that cannot be opened, is Unreadable.                           *)
(***************************************************************************)

Unreadable == <<"Unreadable">>

\* _load_country_map_json(path) -> Dict[str, str]; json_file is
\* [readable, data]: whether open, json.load and .items() succeed, and the
\* dict the file then holds.
_load_country_map_json(path, json_file) ==
    IF path = None \/ path = EmptyStr THEN EmptyMap
    ELSE IF ~json_file.readable THEN EmptyMap
    ELSE json_file.data

\* the first text of luas that can be read, None when there is none
RECURSIVE FirstReadable(_)
FirstReadable(luas) ==
    IF Len(luas) = 0 THEN None
    ELSE IF luas[1] = Unreadable THEN FirstReadable(Tail(luas))
    ELSE luas[1]

\* os.path.isfile(p) and p.lower().endswith(".zip")
IsZipFile(artifact) ==
    LET n == Lower(artifact.name)
    IN /\ artifact.fs = "file"
       /\ Len(n) >= 4
       /\ Slice(n, Len(n) - 3, Len(n)) = <<".", "z", "i", "p">>

\* _load_area_codes_from_rl_path(path) -> (name_map, iso_map)
_load_area_codes_from_rl_path(artifact) ==
    IF artifact.fs = "dir"
    THEN IF FirstReadable(artifact.luas) = None THEN <<EmptyMap, EmptyMap>>
         ELSE _parse_area_codes_from_lua(FirstReadable(artifact.luas))
    ELSE IF IsZipFile(artifact)
    THEN IF Len(artifact.luas) = 0 \/ artifact.luas[1] = Unreadable
         THEN <<EmptyMap, EmptyMap>>
         ELSE _parse_area_codes_from_lua(artifact.luas[1])
    ELSE <<EmptyMap, EmptyMap>>

\* _looks_like_rl_mod(name) -> bool
_looks_like_rl_mod(name) ==
    LET n == Lower(name)
    IN \/ /\ Contains(n, <<"r","e","a","l","i","s","t","i","c">>)
          /\ Contains(n, <<"l","i","v","e","s","t","o","c","k">>)
       \/ StartsWith(n, <<"f","s","2","5","_","r","e","a","l","i","s","t","i","c",
                          "l","i","v","e","s","t","o","c","k">>)

\* the entries of l that satisfy keep (keep a set of entries), in order
RECURSIVE FilterSeq(_, _)
FilterSeq(l, keep) ==
    IF Len(l) = 0 THEN <<>>
    ELSE IF l[1] \in keep THEN <<l[1]>> \o FilterSeq(Tail(l), keep)
    ELSE FilterSeq(Tail(l), keep)

\* Mutant: the entries are scanned in directory order.
ScanOrderListing(entries) == entries

\* scan_order of load_area_codes_from_rl
ScanOrder(entries) ==
    LET all == {entries[i] : i \in 1..Len(entries)}
        rl == {e \in all : _looks_like_rl_mod(e.name)}
    IN FilterSeq(entries, rl) \o FilterSeq(entries, all \ rl)

\* the first loop of load_area_codes_from_rl from position i of the scan
\* order: <<names, isos, number of entries examined>>
RECURSIVE PrimaryPass(_, _)
PrimaryPass(order, i) ==
    IF i > Len(order) THEN <<EmptyMap, EmptyMap, Len(order)>>
    ELSE LET got == _load_area_codes_from_rl_path(order[i])
         IN IF DOMAIN got[1] # {} THEN <<got[1], got[2], i>>
            ELSE PrimaryPass(order, i + 1)

\* Mutant: the second loop returns at the first archive whose table gives
\* any map, names or ISO codes.
RECURSIVE SecondPassAnyMap(_, _, _)
SecondPassAnyMap(entries, i, seen) ==
    IF i > Len(entries) THEN <<EmptyMap, EmptyMap, seen>>
    ELSE IF ~IsZipFile(entries[i]) THEN SecondPassAnyMap(entries, i + 1, seen)
    ELSE LET found(got) ==
                 IF DOMAIN got[1] # {} \/ DOMAIN got[2] # {}
                 THEN <<got[1], got[2], Append(seen, entries[i].name)>>
                 ELSE SecondPassAnyMap(entries, i + 1, Append(seen, entries[i].name))
         IN found(IF Len(entries[i].luas) > 0 /\ entries[i].luas[1] # Unreadable
                  THEN _parse_area_codes_from_lua(entries[i].luas[1])
                  ELSE <<EmptyMap, EmptyMap>>)

\* the second loop of load_area_codes_from_rl from position i of the
\* directory listing, seen being the list checked so far: every archive is
\* appended to it and the first member named RealisticLivestock.lua parsed;
\* <<names, isos, checked>>
RECURSIVE SecondPass(_, _, _)
SecondPass(entries, i, seen) ==
    IF i > Len(entries) THEN <<EmptyMap, EmptyMap, seen>>
    ELSE IF ~IsZipFile(entries[i]) THEN SecondPass(entries, i + 1, seen)
    ELSE LET found(got) ==
                 IF DOMAIN got[1] # {}
                 THEN <<got[1], got[2], Append(seen, entries[i].name)>>
                 ELSE SecondPass(entries, i + 1, Append(seen, entries[i].name))
         IN found(IF Len(entries[i].luas) > 0 /\ entries[i].luas[1] # Unreadable
                  THEN _parse_area_codes_from_lua(entries[i].luas[1])
                  ELSE <<EmptyMap, EmptyMap>>)

\* load_area_codes_from_rl(mods_dir) -> (names, isos, checked); mods is
\* [isdir, entries], the entries in os.listdir order, and checked lists the
\* names of the entries examined.
load_area_codes_from_rl(mods) ==
    LET names_of(order, n) == [k \in 1..n |-> order[k].name]
        scan(order) ==
            LET done(first) ==
                    IF DOMAIN first[1] # {}
                    THEN <<first[1], first[2], names_of(order, first[3])>>
                    ELSE SecondPass(mods.entries, 1, names_of(order, Len(order)))
            IN done(PrimaryPass(order, 1))
    IN IF ~mods.isdir THEN <<EmptyMap, EmptyMap, <<>>>>
       ELSE scan(ScanOrder(mods.entries))

\* Mutant: a direct mod path that yields no names falls back to the scan.
CountryTableFallBack(a, f) ==
    LET json_override == _load_country_map_json(a.country_map, f.country_json)
        direct == _load_area_codes_from_rl_path(f.rl)
        scanned == load_area_codes_from_rl(f.mods)
        json_read == IF a.country_map = None \/ a.country_map = EmptyStr THEN {}
                     ELSE {"country_map"}
    IN IF DOMAIN json_override # {}
       THEN [json |-> json_override, names |-> EmptyMap, isos |-> EmptyMap,
             reads |-> json_read, checked |-> <<>>]
       ELSE IF a.rl # None /\ a.rl # EmptyStr /\ DOMAIN direct[1] # {}
       THEN [json |-> json_override, names |-> direct[1], isos |-> direct[2],
             reads |-> json_read \cup {"rl"}, checked |-> <<>>]
       ELSE IF a.rl # None /\ a.rl # EmptyStr
       THEN [json |-> json_override, names |-> scanned[1], isos |-> scanned[2],
             reads |-> json_read \cup {"rl", "mods"}, checked |-> scanned[3]]
       ELSE [json |-> json_override, names |-> scanned[1], isos |-> scanned[2],
             reads |-> json_read \cup {"mods"}, checked |-> scanned[3]]

\* The "Country maps" block of run_for_save: the three maps handed to
\* parse_placeables and the sources that were read to build them.
CountryTable(a, f) ==
    LET json_override == _load_country_map_json(a.country_map, f.country_json)
        direct == _load_area_codes_from_rl_path(f.rl)
        scanned == load_area_codes_from_rl(f.mods)
        json_read == IF a.country_map = None \/ a.country_map = EmptyStr THEN {}
                     ELSE {"country_map"}
    IN IF DOMAIN json_override # {}
       THEN [json |-> json_override, names |-> EmptyMap, isos |-> EmptyMap,
             reads |-> json_read, checked |-> <<>>]
       ELSE IF a.rl # None /\ a.rl # EmptyStr
       THEN [json |-> json_override, names |-> direct[1], isos |-> direct[2],
             reads |-> json_read \cup {"rl"}, checked |-> <<>>]
       ELSE [json |-> json_override, names |-> scanned[1], isos |-> scanned[2],
             reads |-> json_read \cup {"mods"}, checked |-> scanned[3]]

\* species_filter_list of main(): normalize_species_list(args.species) if
\* args.species else None
SpeciesFilterList(a) ==
    IF a.species = None \/ a.species = EmptyStr THEN None
    ELSE normalize_species_list(a.species)

(***************************************************************************)
(* Inputs of the country-code lookup                                       *)
(***************************************************************************)

\* Longest raw country code drawn.
MaxCodeLen == 2

\* Dict keys drawn: a canonical code, the same code zero padded, a non-number.
MapKeys == {<<"7">>, <<"0","7">>, <<"x">>}

\* All dicts whose keys lie in keys and whose value under k is either
\* tag \o k or, when blank is set, the empty string.
MapsOver(keys, tag, blank) ==
    UNION {{f \in [S -> {EmptyStr} \cup {tag \o k : k \in S}] :
                \A k \in S : f[k] = tag \o k \/ (blank /\ f[k] = EmptyStr)}
           : S \in SUBSET keys}

LookupIdle ==
    /\ code_raw = EmptyStr
    /\ name_map = EmptyMap
    /\ iso_map = EmptyMap
    /\ json_map = EmptyMap
    /\ lookup_result = None

LuaIdle == lua_text = EmptyStr /\ lua_body = None /\ lua_result = None

DueIdle == due_args = None /\ due_result = None

RunIdle ==
    /\ args = None
    /\ files = None
    /\ reads = {}
    /\ checked = <<>>
    /\ animals_rows = <<>>
    /\ fetuses_rows = <<>>
    /\ summary_rows = <<>>
    /\ outputs = <<>>

BatchIdle == save_dirs = <<>> /\ saves = None /\ save_pos = 0 /\ batch_log = <<>>

InitLookup ==
    /\ code_raw \in SeqsUpTo({"7", "0", ".", "x"}, MaxCodeLen)
    /\ name_map \in MapsOver(MapKeys, <<"N">>, TRUE)
    /\ iso_map \in MapsOver({<<"7">>, <<"0","7">>}, <<"I">>, FALSE)
    /\ json_map \in MapsOver(MapKeys, <<"J">>, FALSE) \cup {[k \in {<<"7">>} |-> EmptyStr]}
    /\ lookup_result = None
    /\ pc = "call"
    /\ LuaIdle /\ DueIdle /\ RunIdle /\ BatchIdle

\* One call of _country_lookup on the drawn arguments.
CountryLookup ==
    /\ pc = "call"
    /\ lookup_result = None
    /\ lookup_result' = _country_lookup(code_raw, name_map, iso_map, json_map)
    /\ pc' = "done"
    /\ UNCHANGED <<code_raw, name_map, iso_map, json_map, luaVars, dueVars, runVars, batchVars>>

NextLookup == CountryLookup

SpecLookup == InitLookup /\ [][NextLookup]_vars

(***************************************************************************)
(* C2, C3: the lookup chain                                                *)
(***************************************************************************)

LookupDone == pc = "done" /\ lookup_result # None

\* The key the name and ISO maps are consulted under.
ClaimKey ==
    IF IntNormalise(code_raw).ok THEN IntNormalise(code_raw).str ELSE code_raw

OverrideHitRaw == code_raw \in DOMAIN json_map

OverrideHitNorm ==
    /\ ~OverrideHitRaw
    /\ IntNormalise(code_raw).ok
    /\ IntNormalise(code_raw).str \in DOMAIN json_map

\* No lookup path yields a name for a non-empty code.
NoNameFound ==
    /\ code_raw # EmptyStr
    /\ ~OverrideHitRaw
    /\ ~OverrideHitNorm
    /\ MapGet(name_map, ClaimKey, EmptyStr) = EmptyStr
    /\ MapGet(name_map, code_raw, EmptyStr) = EmptyStr

\* C2: the result of _country_lookup is the first hit of the ordered chain:
\* empty code; raw code in the override map; integer-normalised code in the
\* override map; normalised (or literal) code in the name and ISO maps; raw
\* code in the name map.
C2_LookupChain ==
    LookupDone =>
      /\ code_raw = EmptyStr => lookup_result = <<EmptyStr, EmptyStr>>
      /\ (code_raw # EmptyStr /\ OverrideHitRaw)
            => lookup_result = <<json_map[code_raw], EmptyStr>>
      /\ (code_raw # EmptyStr /\ OverrideHitNorm)
            => lookup_result = <<json_map[IntNormalise(code_raw).str], EmptyStr>>
      /\ (code_raw # EmptyStr /\ ~OverrideHitRaw /\ ~OverrideHitNorm)
            => IF MapGet(name_map, ClaimKey, EmptyStr) # EmptyStr
               THEN lookup_result =
                      <<name_map[ClaimKey], MapGet(iso_map, ClaimKey, EmptyStr)>>
               ELSE MapGet(name_map, code_raw, EmptyStr) # EmptyStr
                      => lookup_result[1] = name_map[code_raw]

\* C2 witness: the raw code misses the override map and its normalised form,
\* a different string, hits it.
C2_Witness ==
    /\ LookupDone
    /\ code_raw # EmptyStr
    /\ OverrideHitNorm
    /\ IntNormalise(code_raw).str # code_raw
    /\ lookup_result[1] # EmptyStr

\* C3 as stated: with no name found the result is the Unknown name together
\* with the empty ISO code.
C3_UnknownHasEmptyIso ==
    (LookupDone /\ NoNameFound)
        => lookup_result = <<UnknownName(code_raw), EmptyStr>>

\* C3 amended: with no name found the name is the Unknown name and the ISO
\* code is the ISO map's entry for the code (under the raw string when both
\* maps have the raw string as a key, else under the normalised or literal
\* key), empty only when the ISO map has no such entry.
C3_UnknownKeepsIso ==
    (LookupDone /\ NoNameFound)
        => lookup_result =
             <<UnknownName(code_raw),
               IF code_raw \in DOMAIN name_map /\ code_raw \in DOMAIN iso_map
               THEN iso_map[code_raw]
               ELSE MapGet(iso_map, ClaimKey, EmptyStr)>>

\* C3 witness: no name is found and the ISO map has an entry for the code.
C3_Witness ==
    /\ LookupDone
    /\ NoNameFound
    /\ ClaimKey \in DOMAIN iso_map
    /\ lookup_result[1] = UnknownName(code_raw)
    /\ lookup_result[2] # EmptyStr

(***************************************************************************)
(* Inputs of the table parser                                              *)
(***************************************************************************)

\* Longest Lua text drawn exhaustively.
MaxLuaLen == 5

LuaChunks == {LuaHeader, LuaOpen, LuaClose, LuaIndex, LuaCountry, LuaCode}

\* AREA_CODES = { [1] = { ["code"]="US", ["country"]="X" } }
LuaSample ==
    <<LuaHeader, LuaOpen, LuaIndex, LuaOpen, LuaCode, LuaCountry, LuaClose, LuaClose>>

\* Every text one chunk away from t: a chunk dropped, replaced or inserted.
OneEdit(t) ==
    {Slice(t, 1, i - 1) \o Slice(t, i + 1, Len(t)) : i \in 1..Len(t)}
    \cup {Slice(t, 1, i - 1) \o <<c>> \o Slice(t, i + 1, Len(t)) :
            i \in 1..Len(t), c \in LuaChunks}
    \cup {Slice(t, 1, i) \o <<c>> \o Slice(t, i + 1, Len(t)) :
            i \in 0..Len(t), c \in LuaChunks}

LuaTexts == SeqsUpTo(LuaChunks, MaxLuaLen) \cup {LuaSample} \cup OneEdit(LuaSample)

InitLua ==
    /\ lua_text \in LuaTexts
    /\ lua_body = None
    /\ lua_result = None
    /\ pc = "call"
    /\ LookupIdle /\ DueIdle /\ RunIdle /\ BatchIdle

\* One call of _parse_area_codes_from_lua on the drawn text.
ParseAreaCodes ==
    /\ pc = "call"
    /\ lua_result = None
    /\ lua_body' = _brace_body(lua_text, LuaHeader)
    /\ lua_result' = _parse_area_codes_from_lua(lua_text)
    /\ pc' = "done"
    /\ UNCHANGED <<lua_text, lookupVars, dueVars, runVars, batchVars>>

NextLua == ParseAreaCodes

SpecLua == InitLua /\ [][NextLua]_vars

(***************************************************************************)
(* C4: malformed tables                                                    *)
(***************************************************************************)

LuaDone == pc = "done" /\ lua_result # None

\* Number of chunks equal to c among t[a..b].
CountIn(t, a, b, c) == Cardinality({i \in a..b : i <= Len(t) /\ t[i] = c})

HeaderAt == Find(lua_text, <<LuaHeader>>, 1)

HeaderMissing == HeaderAt = 0

FirstOpen == IF HeaderMissing THEN 0 ELSE Find(lua_text, <<LuaOpen>>, HeaderAt)

NoOpenBrace == ~HeaderMissing /\ FirstOpen = 0

\* The brace opened at FirstOpen is never closed: from it on, no prefix holds
\* as many closing as opening braces.
Unclosed ==
    /\ FirstOpen # 0
    /\ \A k \in FirstOpen..Len(lua_text) :
          CountIn(lua_text, FirstOpen, k, LuaOpen)
              # CountIn(lua_text, FirstOpen, k, LuaClose)

\* The braces after the header do not pair up: their numbers differ, or some
\* prefix closes more braces than it opens.
Unbalanced ==
    /\ ~HeaderMissing
    /\ \/ CountIn(lua_text, HeaderAt, Len(lua_text), LuaOpen)
             # CountIn(lua_text, HeaderAt, Len(lua_text), LuaClose)
       \/ \E k \in HeaderAt..Len(lua_text) :
             CountIn(lua_text, HeaderAt, k, LuaOpen)
                < CountIn(lua_text, HeaderAt, k, LuaClose)

EmptyMaps == <<EmptyMap, EmptyMap>>

IsMapPair(r) ==
    /\ DOMAIN r = 1..2
    /\ \A i \in 1..2 : \A k \in DOMAIN r[i] : Len(r[i][k]) >= 0

\* C4 as stated: the parser returns a pair of maps for every text, and two
\* empty maps whenever the header is missing, no brace follows it, or the
\* braces after it are truncated or unbalanced.
C4_MalformedGivesEmpty ==
    LuaDone =>
      /\ IsMapPair(lua_result)
      /\ (HeaderMissing \/ NoOpenBrace \/ Unclosed \/ Unbalanced)
            => lua_result = EmptyMaps

\* C4 amended: the parser returns a pair of maps for every text, and two
\* empty maps whenever the header is missing, no brace follows it, or the
\* brace opened after it is never closed (the depth never returns to zero).
C4_UnclosedGivesEmpty ==
    LuaDone =>
      /\ IsMapPair(lua_result)
      /\ (HeaderMissing \/ NoOpenBrace \/ Unclosed) => lua_result = EmptyMaps

\* C4 witness: a table cut off before its last brace, holding a complete
\* entry, parses to two empty maps.
C4_Witness ==
    /\ LuaDone
    /\ Unclosed
    /\ \E p, r, q \in 1..Len(lua_text) :
          /\ FirstOpen < p /\ p + 1 < r /\ r < q
          /\ lua_text[p] = LuaIndex
          /\ lua_text[p + 1] = LuaOpen
          /\ lua_text[r] = LuaCountry
          /\ lua_text[q] = LuaClose
    /\ lua_result = EmptyMaps

(***************************************************************************)
(* C16: the body found by the depth counter                                *)
(***************************************************************************)

\* the depth counter after the character at position k, counted from the
\* first '{' after the header
DepthAfter(k) ==
    CountIn(lua_text, FirstOpen, k, LuaOpen) - CountIn(lua_text, FirstOpen, k, LuaClose)

\* the positions after FirstOpen where the depth counter is back at zero
ClosingPositions == {k \in (FirstOpen + 1)..Len(lua_text) : DepthAfter(k) = 0}

\* the first of them
ClosingBrace == CHOOSE k \in ClosingPositions : \A m \in ClosingPositions : k <= m

\* no prefix of b closes more braces than it opens, and b opens as many as
\* it closes
Balanced(b) ==
    /\ \A n \in 1..Len(b) : CountIn(b, 1, n, LuaOpen) >= CountIn(b, 1, n, LuaClose)
    /\ CountIn(b, 1, Len(b), LuaOpen) = CountIn(b, 1, Len(b), LuaClose)

\* C16: _brace_body finds a body exactly when the depth counter, started at
\* the first '{' at or after the first header, returns to zero; the body is
\* then the text strictly between that '{' and the first position where the
\* depth is zero again; the depth is at least 1 at every position from the
\* '{' up to it, the body is brace-balanced, and cutting the text anywhere
\* after that position leaves the body the same.
C16_BodyBetweenBraces ==
    LuaDone =>
        /\ lua_body # None <=> (FirstOpen # 0 /\ ClosingPositions # {})
        /\ lua_body # None =>
            /\ lua_text[FirstOpen] = LuaOpen
            /\ lua_text[ClosingBrace] = LuaClose
            /\ lua_body = Slice(lua_text, FirstOpen + 1, ClosingBrace - 1)
            /\ \A k \in FirstOpen..(ClosingBrace - 1) : DepthAfter(k) >= 1
            /\ Balanced(lua_body)
            /\ \A m \in ClosingBrace..Len(lua_text) :
                    _brace_body(Slice(lua_text, 1, m), LuaHeader) = lua_body

\* C16 witness: a table with a nested entry, followed by more text that
\* holds a further closing brace: the body holds the whole entry and ends
\* at the brace that closes the table.
C16_Witness ==
    /\ LuaDone
    /\ lua_body # None
    /\ \E n \in 1..Len(lua_body) : lua_body[n] = LuaOpen
    /\ ClosingBrace < Len(lua_text)
    /\ \E m \in (ClosingBrace + 1)..Len(lua_text) : lua_text[m] = LuaClose
    /\ DOMAIN lua_result[1] # {}

(***************************************************************************)
(* Inputs of derive_due_date                                               *)
(***************************************************************************)

\* Durations 0..MaxDueDays are all drawn, next to the fixed ones below.
MaxDueDays == 2

\* the strings drawn for y, m, d and duration_str
DueArgs ==
    [y : {EmptyStr, <<"x">>, <<"1">>, <<"1","9","0","0">>, <<"2","0","2","4">>,
          <<"2","0","2","5">>, <<"9","9","9","9">>, <<"0">>,
          <<"2","0","2","5",".","0">>},
     m : {EmptyStr, <<"1">>, <<"2">>, <<"1","2">>, <<"1","3">>, <<"0","2">>},
     d : {EmptyStr, <<"1">>, <<"2","0">>, <<"2","8">>, <<"2","9">>, <<"3","0">>,
          <<"3","1">>, <<"0">>, <<" ","1"," ">>},
     duration : {IntToStr(n) : n \in 0..MaxDueDays}
                \cup {EmptyStr, <<"x">>, <<"i","n","f">>, <<"n","a","n">>,
                      <<"1","1","4">>, <<"1","1","4",".","9">>, <<"3","6","6">>,
                      <<"-","3","0">>}]

InitDue ==
    /\ due_args \in DueArgs
    /\ due_result = None
    /\ pc = "call"
    /\ LookupIdle /\ LuaIdle /\ RunIdle /\ BatchIdle

\* One call of derive_due_date on the drawn arguments.
DeriveDueDate ==
    /\ pc = "call"
    /\ due_result = None
    /\ due_result' = derive_due_date(due_args.y, due_args.m, due_args.d, due_args.duration)
    /\ pc' = "done"
    /\ UNCHANGED <<due_args, lookupVars, luaVars, runVars, batchVars>>

NextDue == DeriveDueDate

SpecDue == InitDue /\ [][NextDue]_vars

(***************************************************************************)
(* C10: the due date                                                       *)
(***************************************************************************)

DueDone == pc = "done" /\ due_result # None

\* The first day of the month after dt's, and the last day of the month
\* before it, by the calendar's rules.
NextMonthStart(dt) ==
    IF dt[2] < 12 THEN <<dt[1], dt[2] + 1, 1>> ELSE <<dt[1] + 1, 1, 1>>

PrevMonthEnd(dt) ==
    IF dt[2] > 1 THEN <<dt[1], dt[2] - 1, DaysInMonth(dt[1], dt[2] - 1)>>
    ELSE <<dt[1] - 1, 12, 31>>

\* The date n days from dt, walking the calendar month by month; a year
\* outside 1..9999 stays outside.
RECURSIVE StepDays(_, _)
StepDays(dt, n) ==
    IF n = 0 \/ dt[1] < 1 \/ dt[1] > 9999 THEN dt
    ELSE IF n > 0
         THEN IF dt[3] + n <= DaysInMonth(dt[1], dt[2])
              THEN <<dt[1], dt[2], dt[3] + n>>
              ELSE StepDays(NextMonthStart(dt),
                            n - (DaysInMonth(dt[1], dt[2]) - dt[3] + 1))
         ELSE IF dt[3] + n >= 1
              THEN <<dt[1], dt[2], dt[3] + n>>
              ELSE StepDays(PrevMonthEnd(dt), n + dt[3])

DueInts ==
    [y |-> PyInt(due_args.y), m |-> PyInt(due_args.m), d |-> PyInt(due_args.d),
     duration |-> IntNormalise(due_args.duration)]

\* All four inputs are non-empty and parse (the date parts as int, the
\* duration as int(float)).
DueParses ==
    /\ due_args.y # EmptyStr /\ due_args.m # EmptyStr
    /\ due_args.d # EmptyStr /\ due_args.duration # EmptyStr
    /\ DueInts.y.ok /\ DueInts.m.ok /\ DueInts.d.ok /\ DueInts.duration.ok

DueStart == <<DueInts.y.val, DueInts.m.val, DueInts.d.val>>

DueDays == PyInt(DueInts.duration.str).val

DueTarget == StepDays(DueStart, DueDays)

\* The start is a date of the calendar and so is the date DueDays later.
DueOnCalendar ==
    /\ ValidDate(DueStart[1], DueStart[2], DueStart[3])
    /\ 1 <= DueTarget[1] /\ DueTarget[1] <= 9999

\* C10: derive_due_date is non-empty only for four non-empty parseable
\* inputs; it is then start + duration days by the calendar, written
\* YYYY-MM-DD; (2025, 1, 20) + 114 is 2025-05-14; anything else gives "".
C10_DueDate ==
    DueDone =>
      /\ due_result # EmptyStr => DueParses
      /\ IF DueParses /\ DueOnCalendar
         THEN /\ Len(due_result) = 10
              /\ due_result[5] = "-" /\ due_result[8] = "-"
              /\ PyInt(SubSeq(due_result, 1, 4)).val = DueTarget[1]
              /\ PyInt(SubSeq(due_result, 6, 7)).val = DueTarget[2]
              /\ PyInt(SubSeq(due_result, 9, 10)).val = DueTarget[3]
         ELSE due_result = EmptyStr
      /\ (/\ due_args.y = <<"2","0","2","5">> /\ due_args.m = <<"1">>
          /\ due_args.d = <<"2","0">> /\ due_args.duration = <<"1","1","4">>)
            => due_result = <<"2","0","2","5","-","0","5","-","1","4">>

\* C10 witness: a due date that crosses the leap day of 2024.
C10_Witness ==
    /\ DueDone
    /\ DueParses /\ DueOnCalendar
    /\ DueStart = <<2024, 2, 28>>
    /\ DueDays = 2
    /\ due_result = <<"2","0","2","4","-","0","3","-","0","1">>


(***************************************************************************)
(* run_for_save: one export of one save                                    *)
(***************************************************************************)

\* main() for a single save followed by run_for_save: the country maps, the
\* rows, the summary and the written outputs, in one step.  A save without
\* placeables.xml ends the call before anything is read; an exception in
\* parse_placeables ends it before anything is written.
RunForSave ==
    /\ pc = "call"
    /\ IF ~files.placeables.isfile
       THEN /\ pc' = "missing"
            /\ UNCHANGED <<name_map, iso_map, json_map, reads, checked, animals_rows,
                           fetuses_rows, summary_rows, outputs>>
       ELSE /\ \E table \in {CountryTable(args, files)} :
                /\ json_map' = table.json
                /\ name_map' = table.names
                /\ iso_map' = table.isos
                /\ reads' = table.reads
                /\ checked' = table.checked
            /\ \E parsed \in {parse_placeables(files.placeables, name_map', iso_map',
                                                json_map', SpeciesFilterList(args),
                                                args.farmid)} :
                IF parsed.raised
                THEN /\ pc' = "raised"
                     /\ UNCHANGED <<animals_rows, fetuses_rows, summary_rows, outputs>>
                ELSE /\ pc' = "done"
                     /\ animals_rows' = parsed.animals
                     /\ fetuses_rows' = parsed.fetuses
                     /\ summary_rows' = summarize(animals_rows')
                     /\ outputs' = <<animals_rows', fetuses_rows', summary_rows'>>
    /\ UNCHANGED <<args, files, code_raw, lookup_result, luaVars, dueVars, batchVars>>

NextRun == RunForSave

\* What every run starts from: nothing read, nothing built, nothing written.
RunStart ==
    /\ code_raw = EmptyStr
    /\ lookup_result = None
    /\ name_map = EmptyMap
    /\ iso_map = EmptyMap
    /\ json_map = EmptyMap
    /\ reads = {}
    /\ checked = <<>>
    /\ animals_rows = <<>>
    /\ fetuses_rows = <<>>
    /\ summary_rows = <<>>
    /\ outputs = <<>>
    /\ pc = "call"
    /\ LuaIdle /\ DueIdle /\ BatchIdle

(***************************************************************************)
(* main() with --all-saves: one export per save folder                     *)
(*                                                                         *)
(* A folder under the current directory is [name, isdir, document]: its    *)
(* name, whether it is a directory, and its placeables.xml.                *)
(***************************************************************************)

\* sorted(...) of the folders by name
RECURSIVE SortedByName(_)
SortedByName(l) ==
    IF Len(l) = 0 THEN <<>>
    ELSE LET placed(front, x) ==
                 LET at == Cardinality({i \in 1..Len(front) : StrLess(front[i].name, x.name)})
                 IN Slice(front, 1, at) \o <<x>> \o Slice(front, at + 1, Len(front))
         IN placed(SortedByName(Slice(l, 1, Len(l) - 1)), l[Len(l)])

\* the loop of list_saves over the sorted folders
RECURSIVE SavesIn(_)
SavesIn(l) ==
    IF Len(l) = 0 THEN <<>>
    ELSE IF ~StartsWith(Lower(l[1].name), <<"s","a","v","e","g","a","m","e">>)
    THEN SavesIn(Tail(l))
    ELSE IF l[1].isdir /\ l[1].document.isfile THEN <<l[1].name>> \o SavesIn(Tail(l))
    ELSE SavesIn(Tail(l))

\* list_saves(fs_root) -> List[str]
list_saves(dirs) == SavesIn(SortedByName(dirs))

\* the folder called n
FolderOf(dirs, n) == dirs[CHOOSE i \in 1..Len(dirs) : dirs[i].name = n]

\* main() from its start to the loop over the saves: the saves are listed
\* once; without any, main returns.
ListSaves ==
    /\ pc = "main"
    /\ saves' = list_saves(save_dirs)
    /\ save_pos' = 1
    /\ pc' = IF Len(saves') = 0 THEN "exit" ELSE "loop"
    /\ UNCHANGED <<save_dirs, batch_log, lookupVars, luaVars, dueVars, runVars>>

\* The file system between two exports: the placeables.xml of a listed
\* save that is still to be exported goes away.
DocumentRemoved ==
    /\ pc = "loop"
    /\ \E i \in 1..Len(save_dirs) :
        /\ \E k \in save_pos..Len(saves) : saves[k] = save_dirs[i].name
        /\ save_dirs[i].document.isfile
        /\ save_dirs' = [save_dirs EXCEPT ![i].document.isfile = FALSE]
    /\ UNCHANGED <<saves, save_pos, batch_log, lookupVars, luaVars, dueVars, runVars, pc>>

\* One iteration of the loop over the saves: run_for_save on the next save.
\* What the call did is appended to batch_log: the save, what it found at
\* placeables.xml, and the three tables it wrote (<<>> when it wrote
\* none).  An exception leaves run_for_save, the loop and main.
BatchIteration ==
    /\ pc = "loop"
    /\ \E doc \in {FolderOf(save_dirs, saves[save_pos]).document} :
        \E entry \in {[save |-> saves[save_pos], isfile |-> doc.isfile,
                        wellformed |-> doc.wellformed]} :
          IF ~doc.isfile
          THEN /\ batch_log' = Append(batch_log,
                    [save |-> entry.save, isfile |-> entry.isfile,
                     wellformed |-> entry.wellformed, outcome |-> "missing",
                     written |-> <<>>])
               /\ pc' = IF save_pos = Len(saves) THEN "exit" ELSE "loop"
          ELSE \E table \in {CountryTable(args, files)} :
               \E parsed \in {parse_placeables(doc, table.names, table.isos, table.json,
                                                SpeciesFilterList(args), args.farmid)} :
                 IF parsed.raised
                 THEN /\ batch_log' = Append(batch_log,
                           [save |-> entry.save, isfile |-> entry.isfile,
                            wellformed |-> entry.wellformed, outcome |-> "raised",
                            written |-> <<>>])
                      /\ pc' = "crashed"
                 ELSE /\ batch_log' = Append(batch_log,
                           [save |-> entry.save, isfile |-> entry.isfile,
                            wellformed |-> entry.wellformed, outcome |-> "written",
                            written |-> <<parsed.animals, parsed.fetuses,
                                          summarize(parsed.animals)>>])
                      /\ pc' = IF save_pos = Len(saves) THEN "exit" ELSE "loop"
    /\ save_pos' = save_pos + 1
    /\ UNCHANGED <<save_dirs, saves, lookupVars, luaVars, dueVars, runVars>>

NextBatch == ListSaves \/ DocumentRemoved \/ BatchIteration

(***************************************************************************)
(* Elements of the save document                                           *)
(***************************************************************************)

MaxAnimals == 2

MaxFetuses == 2

MaxEntries == 2

\* An <animal> with only the attributes every animal carries.
PlainAnimal ==
    [type |-> EmptyStr, animalType |-> EmptyStr, subType |-> <<"a">>,
     farmId |-> <<"1">>, id |-> <<"1">>, name |-> EmptyStr, gender |-> <<"f">>,
     age |-> <<"1", "2">>, weight |-> EmptyStr, isParent |-> EmptyStr,
     isPregnant |-> EmptyStr, health |-> EmptyStr, genetics |-> NoNode,
     birthday |-> NoNode, pregnancy |-> NoNode]

\* <genetics .../> with the five traits k+2 .. k+6
Genetics(k) ==
    [tag |-> "genetics", metabolism |-> NatToStr(k + 2), quality |-> NatToStr(k + 3),
     health |-> NatToStr(k + 4), fertility |-> NatToStr(k + 5),
     productivity |-> NatToStr(k + 6)]

\* The pregnancy of an animal is a pair: <<"none", 0>> for no <pregnancy>
\* child, <<"bare", 0>> for one without a <pregnancies> child, <<"list", n>>
\* for one with n nested entries, of which the odd ones carry genetics.
\* <pregnancy day="20" month="1" year="2025" duration=...>
Pregnancy(duration, shape) ==
    LET fetus(i) ==
            [gender |-> IF i % 2 = 1 THEN <<"m">> ELSE <<"f">>, subType |-> <<"a">>,
             health |-> NatToStr(i),
             genetics |-> IF i % 2 = 1 THEN Genetics(i) ELSE NoNode]
    IN IF shape[1] = "none" THEN NoNode
       ELSE [tag |-> "pregnancy", day |-> <<"2","0">>, month |-> <<"1">>,
             year |-> <<"2","0","2","5">>, duration |-> duration,
             pregnancies |-> IF shape[1] = "bare" THEN NoNode
                             ELSE [tag |-> "pregnancies",
                                   items |-> [i \in 1..shape[2] |-> fetus(i)]]]

Husbandry(animals) ==
    [tag |-> "husbandryAnimals", clusters |-> [tag |-> "clusters", animals |-> animals]]

\* <placeable filename="m/barn" id="5"> without a <type> child
BarnShell(animals) ==
    [filename |-> <<"m", "/", "b", "a", "r", "n">>, id |-> <<"5">>, uniqueId |-> EmptyStr,
     type |-> NoNode, husbandryAnimals |-> Husbandry(animals)]

\* <placeable uniqueId="u9"><type> Pig Sty </type>...
StyShell(animals) ==
    [filename |-> EmptyStr, id |-> EmptyStr, uniqueId |-> <<"u", "9">>,
     type |-> [tag |-> "type", text |-> <<" ", "P", "i", "g", " ", "S", "t", "y", " ">>],
     husbandryAnimals |-> Husbandry(animals)]

\* placeables.xml with the given <placeable> elements
Document(placeables) ==
    [isfile |-> TRUE, wellformed |-> TRUE, placeables |-> placeables]

\* the animals at odd positions in the barn, the others in the sty; between
\* them a placeable that is not a husbandry, after them a husbandry without
\* a <clusters> child
TwoSheds(animals) ==
    LET odd == {i \in 1..Len(animals) : i % 2 = 1}
        silo == [filename |-> <<"m", "/", "s", "i", "l", "o">>, id |-> <<"6">>,
                 uniqueId |-> EmptyStr, type |-> NoNode, husbandryAnimals |-> NoNode]
        bare == [filename |-> <<"m", "/", "c", "o", "w", "s", "h", "e", "d">>, id |-> <<"7">>,
                 uniqueId |-> EmptyStr, type |-> NoNode,
                 husbandryAnimals |-> [tag |-> "husbandryAnimals", clusters |-> NoNode]]
    IN Document(<<BarnShell([k \in 1..Cardinality(odd) |-> animals[2 * k - 1]]),
                  silo,
                  StyShell([k \in 1..(Len(animals) - Cardinality(odd)) |-> animals[2 * k]]),
                  bare>>)

\* the files of a run without country sources: no readable --country-map
\* file, nothing at the --rl path, no mods directory
NoSources ==
    [country_json |-> [readable |-> FALSE, data |-> EmptyMap],
     rl |-> [name |-> EmptyStr, fs |-> "none", luas |-> <<>>],
     mods |-> [isdir |-> FALSE, entries |-> <<>>]]

(***************************************************************************)
(* Runs over documents that vary species, identifiers and pregnancies      *)
(***************************************************************************)

\* an animal of the given type and id; its farm is its id, and animal 1 has
\* a birthday
FilterAnimal(t, i, shape) ==
    [PlainAnimal EXCEPT
        !.type = t, !.id = i, !.farmId = i,
        !.birthday = IF i = <<"1">>
                     THEN [tag |-> "birthday", day |-> <<"3">>, month |-> <<"4">>,
                           year |-> <<"2","0","2","4">>, country |-> <<"1">>]
                     ELSE NoNode,
        !.isPregnant = IF shape[1] = "none" THEN EmptyStr ELSE <<"t","r","u","e">>,
        !.pregnancy = Pregnancy(<<"1","1","4">>, shape)]

FilterAnimals ==
    {FilterAnimal(t, i, shape) :
        t \in {<<"C","O","W">>, <<"p","i","g">>, EmptyStr},
        i \in {<<"1">>, <<"2">>},
        shape \in {<<"none", 0>>, <<"bare", 0>>, <<"list", MaxFetuses>>}}

JsonOverride == [readable |-> TRUE, data |-> [k \in {<<"1">>} |-> <<"J", "1">>]]

InitParse ==
    /\ \E animals \in SeqsUpTo(FilterAnimals, MaxAnimals),
          sp \in {None, <<"c", "o", "w", ",", " ", "S", "h", "e", "e", "p">>},
          fa \in {None, <<"1">>} :
        /\ args = [country_map |-> <<"c">>, rl |-> None, species |-> sp,
                   farmid |-> fa]
        /\ files = [placeables |-> TwoSheds(animals),
                    country_json |-> JsonOverride, rl |-> NoSources.rl,
                    mods |-> NoSources.mods]
    /\ RunStart

SpecParse == InitParse /\ [][NextRun]_vars


\* ---- Claims over the species filter and the fetus table ----

RunDone == pc = "done"

\* the allow-list handed to parse_placeables, None when no filter is active
ActiveFilter == SpeciesFilterList(args)

FilterActive == ActiveFilter # None /\ Len(ActiveFilter) > 0

Allowed(species) ==
    species = EmptyStr \/ \E i \in 1..Len(ActiveFilter) : ActiveFilter[i] = species

\* the rows of l whose species the allow-list admits, in order
RECURSIVE AllowedRows(_)
AllowedRows(l) ==
    IF Len(l) = 0 THEN <<>>
    ELSE IF Allowed(l[1].species) THEN <<l[1]>> \o AllowedRows(Tail(l))
    ELSE AllowedRows(Tail(l))

\* what the same call returns without a species filter
Unfiltered ==
    parse_placeables(files.placeables, name_map, iso_map, json_map, None, args.farmid)

\* C5: with an active species allow-list every emitted animal row and every
\* emitted fetus row has a species that is empty or on the list, and the
\* emitted rows are exactly the rows of the unfiltered call whose species is
\* empty or on the list, so no unclassified animal is dropped by the filter.
C5_SpeciesFilter ==
    (RunDone /\ FilterActive) =>
        /\ \A i \in 1..Len(animals_rows) : Allowed(animals_rows[i].species)
        /\ \A i \in 1..Len(fetuses_rows) : Allowed(fetuses_rows[i].species)
        /\ animals_rows = AllowedRows(Unfiltered.animals)
        /\ fetuses_rows = AllowedRows(Unfiltered.fetuses)

\* A run filtered by cows and sheep over a document with an unclassified
\* pregnant animal and a pig: the pig is left out, the unclassified animal
\* and its fetus rows are kept.
C5_Witness ==
    /\ RunDone
    /\ ActiveFilter = <<s_cows, s_sheep>>
    /\ args.farmid = None
    /\ Len(Unfiltered.animals) = 2
    /\ Unfiltered.animals[2].species = s_pigs
    /\ Len(animals_rows) = 1
    /\ animals_rows[1].species = EmptyStr
    /\ Len(fetuses_rows) = MaxFetuses
    /\ fetuses_rows[1].species = EmptyStr

\* int(count or "0") of a preg_fetus_count cell
CountCell(row) == FetusCountOf(row)

\* the number of fetus rows that name u as their mother
FetusRowsFor(u) ==
    Cardinality({j \in 1..Len(fetuses_rows) : fetuses_rows[j].mother_unique_id = u})

\* the animal rows that carry u as their unique_id
RowsWithId(u) == {i \in 1..Len(animals_rows) : animals_rows[i].unique_id = u}

RECURSIVE SumCounts(_)
SumCounts(S) ==
    IF S = {} THEN 0
    ELSE LET i == CHOOSE x \in S : TRUE
         IN CountCell(animals_rows[i]) + SumCounts(S \ {i})

\* C6 as stated: the fetus count of every animal row equals the number of
\* fetus rows whose mother_unique_id is that row's unique_id.
C6_CountPerIndividual ==
    RunDone =>
        \A i \in 1..Len(animals_rows) :
            CountCell(animals_rows[i]) = FetusRowsFor(animals_rows[i].unique_id)

\* C6: for every unique_id value the fetus counts of the animal rows that
\* carry it add up to the number of fetus rows naming it as mother, so the
\* count of a row equals that number when no other row shares its id, and
\* every fetus row names the id of an emitted animal row.
C6_CountPerId ==
    RunDone =>
        /\ \A i \in 1..Len(animals_rows) :
            /\ SumCounts(RowsWithId(animals_rows[i].unique_id))
                    = FetusRowsFor(animals_rows[i].unique_id)
            /\ RowsWithId(animals_rows[i].unique_id) = {i} =>
                    CountCell(animals_rows[i]) = FetusRowsFor(animals_rows[i].unique_id)
        /\ \A j \in 1..Len(fetuses_rows) :
            RowsWithId(fetuses_rows[j].mother_unique_id) # {}

\* Two animals share an id; one carries MaxFetuses fetuses, the other has a
\* pregnancy without nested entries.
C6_Witness ==
    /\ RunDone
    /\ Len(animals_rows) = 2
    /\ animals_rows[1].unique_id = animals_rows[2].unique_id
    /\ animals_rows[1].preg_fetus_count = NatToStr(MaxFetuses)
    /\ animals_rows[2].preg_fetus_count = <<"0">>
    /\ Len(fetuses_rows) = MaxFetuses


(***************************************************************************)
(* Runs over documents that vary what is kept at each place of the         *)
(* traversal                                                               *)
(***************************************************************************)

\* the first two animals in the barn, then a placeable that is not a
\* husbandry, then the other animals in the sty
ShedsInOrder(animals) ==
    LET silo == [filename |-> <<"m", "/", "s", "i", "l", "o">>, id |-> <<"6">>,
                 uniqueId |-> EmptyStr, type |-> NoNode, husbandryAnimals |-> NoNode]
        n == IF Len(animals) < 2 THEN Len(animals) ELSE 2
    IN Document(<<BarnShell(Slice(animals, 1, n)), silo,
                  StyShell(Slice(animals, n + 1, Len(animals)))>>)

\* the animal at position i of the document: its id is i, its farm is 1 at
\* odd positions and 2 at even ones, and it has a birthday
PlacedAnimal(i, t, shape) ==
    [FilterAnimal(t, <<"1">>, shape) EXCEPT
        !.id = NatToStr(i),
        !.farmId = IF i % 2 = 1 THEN <<"1">> ELSE <<"2">>]

\* up to MaxAnimals + 1 animals, each a cow or a pig, pregnant with
\* MaxFetuses fetuses or not pregnant
PlacedHerds ==
    UNION {{[i \in 1..n |-> PlacedAnimal(i, c[i][1], c[i][2])] :
                c \in [1..n -> {<<"C","O","W">>, <<"p","i","g">>}
                                \X {<<"none", 0>>, <<"list", MaxFetuses>>}]}
           : n \in 0..(MaxAnimals + 1)}

InitTraversal ==
    /\ \E animals \in PlacedHerds,
          sp \in {None, <<"p", "i", "g", "s", ",", "s", "h", "e", "e", "p">>},
          fa \in {None, <<"1">>} :
        /\ args = [country_map |-> <<"c">>, rl |-> None, species |-> sp,
                   farmid |-> fa]
        /\ files = [placeables |-> ShedsInOrder(animals),
                    country_json |-> JsonOverride, rl |-> NoSources.rl,
                    mods |-> NoSources.mods]
    /\ RunStart

SpecTraversal == InitTraversal /\ [][NextRun]_vars

\* ---- Claims over the order of the rows ----

\* the <placeable> elements of the document
Placeables == files.placeables.placeables

\* the animals of placeable p that the traversal visits
AnimalsOf(p) ==
    IF Missing(Placeables[p].husbandryAnimals) THEN <<>>
    ELSE IF Missing(Placeables[p].husbandryAnimals.clusters) THEN <<>>
    ELSE Placeables[p].husbandryAnimals.clusters.animals

\* the nested fetus entries of an animal
NestedOf(animal) ==
    IF Missing(animal.pregnancy) THEN <<>>
    ELSE IF Missing(animal.pregnancy.pregnancies) THEN <<>>
    ELSE animal.pregnancy.pregnancies.items

\* the places <<p, a>> of the animals that pass both filters
Kept ==
    {x \in (1..Len(Placeables)) \X (1..(MaxAnimals + 1)) :
        /\ x[2] <= Len(AnimalsOf(x[1]))
        /\ ~SpeciesSkip(ActiveFilter,
                        infer_species(Placeables[x[1]], Placeables[x[1]].filename,
                                      AnimalsOf(x[1])[x[2]]))
        /\ ~FarmSkip(args.farmid, AnimalsOf(x[1])[x[2]])}

\* the places <<p, a, f>> of their nested fetus entries
KeptFetuses ==
    UNION {{<<x[1], x[2], f>> : f \in 1..Len(NestedOf(AnimalsOf(x[1])[x[2]]))} : x \in Kept}

\* x comes before y in the document: container first, then animal, then fetus
Earlier(x, y) ==
    \/ x[1] < y[1]
    \/ x[1] = y[1] /\ x[2] < y[2]
    \/ x[1] = y[1] /\ x[2] = y[2] /\ Len(x) = 3 /\ Len(y) = 3 /\ x[3] < y[3]

\* the position of place x among the places of S in document order
RankIn(S, x) == Cardinality({y \in S : Earlier(y, x)}) + 1

\* C12: the animal rows are the animals that pass the filters, one row
\* each, in document order (container, then animal within its clusters),
\* and the fetus rows are their nested fetus entries, one row each, ordered
\* by the place of the mother and then by the place of the fetus in her.
C12_DocumentOrder ==
    RunDone =>
        LET kept == Kept
            fetuses == KeptFetuses
        IN /\ Len(animals_rows) = Cardinality(kept)
           /\ \A x \in kept :
                 /\ animals_rows[RankIn(kept, x)].unique_id = AnimalsOf(x[1])[x[2]].id
                 /\ animals_rows[RankIn(kept, x)].placeable_id
                       = StrOr(Placeables[x[1]].id, Placeables[x[1]].uniqueId)
           /\ Len(fetuses_rows) = Cardinality(fetuses)
           /\ \A y \in fetuses :
                 /\ fetuses_rows[RankIn(fetuses, y)].mother_unique_id
                       = AnimalsOf(y[1])[y[2]].id
                 /\ fetuses_rows[RankIn(fetuses, y)].fetus_index = NatToStr(y[3])
                 /\ fetuses_rows[RankIn(fetuses, y)].health
                       = NestedOf(AnimalsOf(y[1])[y[2]])[y[3]].health

\* C12 witness: three pregnant animals, two in the first container and one
\* in the second; the filter drops the first, and the rows of the second
\* and the third follow in that order, each with her fetuses in order.
C12_Witness ==
    /\ RunDone
    /\ Kept = {<<1, 2>>, <<3, 1>>}
    /\ Len(AnimalsOf(1)) = 2
    /\ Len(animals_rows) = 2
    /\ animals_rows[1].unique_id = <<"2">> /\ animals_rows[2].unique_id = <<"3">>
    /\ Len(fetuses_rows) = 2 * MaxFetuses
    /\ fetuses_rows[1].mother_unique_id = <<"2">>
    /\ fetuses_rows[MaxFetuses].fetus_index = NatToStr(MaxFetuses)
    /\ fetuses_rows[MaxFetuses + 1].mother_unique_id = <<"3">>
    /\ fetuses_rows[MaxFetuses + 1].fetus_index = <<"1">>

\* ---- Claims over the fetus rows of one mother ----

\* the number of the places in fetuses that precede those of the animal at
\* place x
FetusOffset(fetuses, x) ==
    Cardinality({y \in fetuses : Earlier(<<y[1], y[2]>>, x)})

\* the columns a fetus row copies from the row of its mother, as pairs of
\* fetus column and animal column
CopiedColumns ==
    {<<"mother_unique_id", "unique_id">>, <<"current_shed", "current_shed">>,
     <<"shed_type", "shed_type">>, <<"species", "species">>,
     <<"mother_breed", "breed">>, <<"FarmID", "FarmID">>,
     <<"preg_day", "preg_day">>, <<"preg_month", "preg_month">>,
     <<"preg_year", "preg_year">>, <<"preg_duration", "preg_duration">>,
     <<"due_date", "preg_due_date">>, <<"country", "country">>,
     <<"country_name", "country_name">>, <<"country_iso", "country_iso">>}

\* C15: an emitted animal with n nested fetus entries has exactly n fetus
\* rows, next to each other in the fetus collection at the place her
\* position gives; the k-th of them has fetus_index k and is built from her
\* k-th nested entry, and each copies her id, enclosure, species, breed,
\* farm, pregnancy date parts, due date and resolved country unchanged; no
\* other fetus row names her id.
C15_FetusRowsOfMother ==
    RunDone =>
        LET kept == Kept
            fetuses == KeptFetuses
        IN \A x \in kept :
            LET nested == NestedOf(AnimalsOf(x[1])[x[2]])
                first == FetusOffset(fetuses, x)
                mother == animals_rows[RankIn(kept, x)]
            IN /\ first + Len(nested) <= Len(fetuses_rows)
               /\ \A k \in 1..Len(nested) :
                     /\ fetuses_rows[first + k].fetus_index = NatToStr(k)
                     /\ fetuses_rows[first + k].sex = nested[k].gender
                     /\ fetuses_rows[first + k].health = nested[k].health
                     /\ \A c \in CopiedColumns :
                           fetuses_rows[first + k][c[1]] = mother[c[2]]
               /\ \A j \in 1..Len(fetuses_rows) :
                     fetuses_rows[j].mother_unique_id = AnimalsOf(x[1])[x[2]].id
                       => j > first /\ j <= first + Len(nested)

\* C15 witness: two pregnant mothers are emitted; the second has a resolved
\* due date and country, and her MaxFetuses rows follow those of the first.
C15_Witness ==
    /\ RunDone
    /\ Len(animals_rows) = 2
    /\ Len(fetuses_rows) = 2 * MaxFetuses
    /\ animals_rows[2].preg_due_date # EmptyStr
    /\ animals_rows[2].country_name = <<"J", "1">>
    /\ fetuses_rows[2 * MaxFetuses].mother_unique_id = animals_rows[2].unique_id
    /\ fetuses_rows[2 * MaxFetuses].fetus_index = NatToStr(MaxFetuses)
    /\ fetuses_rows[2 * MaxFetuses].due_date = animals_rows[2].preg_due_date
    /\ fetuses_rows[2 * MaxFetuses].country_name = <<"J", "1">>

\* ---- Claims over the totals of the summary ----

\* the sum of the numbers written in column c of the summary rows
RECURSIVE SummaryTotal(_, _)
SummaryTotal(l, c) ==
    IF Len(l) = 0 THEN 0 ELSE PyInt(l[1][c]).val + SummaryTotal(Tail(l), c)

\* C17: the animals_count cells of the summary add up to the number of
\* animal rows and its total_fetuses cells to the number of fetus rows.
C17_TotalsMatch ==
    RunDone =>
        /\ SummaryTotal(summary_rows, "animals_count") = Len(animals_rows)
        /\ SummaryTotal(summary_rows, "total_fetuses") = Len(fetuses_rows)

\* C17 witness: three animals in two groups, one group of two pregnant
\* cows in the barn and one further animal in the sty.
C17_Witness ==
    /\ RunDone
    /\ Len(animals_rows) = 3
    /\ Len(summary_rows) = 2
    /\ \E g \in 1..2 :
          /\ summary_rows[g].animals_count = <<"2">>
          /\ summary_rows[g].total_fetuses = NatToStr(2 * MaxFetuses)
    /\ Len(fetuses_rows) >= 2 * MaxFetuses

(***************************************************************************)
(* Batches over folders that vary what an export finds                     *)
(***************************************************************************)

\* The number of folders under the current directory.
MaxSaves == 3

\* the names os.listdir gives, in the order it gives them
FolderNames ==
    <<<<"s","a","v","e","g","a","m","e","2">>, <<"m","o","d","s">>,
      <<"S","a","v","e","g","a","m","e","1","0">>, <<"s","a","v","e","g","a","m","e","1">>,
      <<"s","a","v","e","g","a","m","e","3">>, <<"s","a","v","e","g","a","m","e","4">>>>

\* what a folder can be: a save with a cow, a save whose placeables.xml is
\* not well-formed, a save with a cow of age "inf", a folder without
\* placeables.xml, and a file that is not a folder
FolderKinds ==
    {[isdir |-> TRUE,
      document |-> Document(<<BarnShell(<<[PlainAnimal EXCEPT !.type = <<"C","O","W">>]>>)>>)],
     [isdir |-> TRUE,
      document |-> [isfile |-> TRUE, wellformed |-> FALSE, placeables |-> <<>>]],
     [isdir |-> TRUE,
      document |-> Document(<<BarnShell(<<[PlainAnimal EXCEPT !.type = <<"C","O","W">>,
                                                              !.age = <<"i","n","f">>]>>)>>)],
     [isdir |-> TRUE,
      document |-> [isfile |-> FALSE, wellformed |-> FALSE, placeables |-> <<>>]],
     [isdir |-> FALSE,
      document |-> [isfile |-> FALSE, wellformed |-> FALSE, placeables |-> <<>>]]}

InitBatch ==
    /\ \E kinds \in [1..(MaxSaves + 1) -> FolderKinds] :
        save_dirs = [i \in 1..(MaxSaves + 1) |->
                        [name |-> FolderNames[i], isdir |-> kinds[i].isdir,
                         document |-> kinds[i].document]]
    /\ saves = None
    /\ save_pos = 0
    /\ batch_log = <<>>
    /\ args = [country_map |-> None, rl |-> None, species |-> None, farmid |-> None]
    /\ files = [placeables |-> [isfile |-> FALSE, wellformed |-> FALSE, placeables |-> <<>>],
                country_json |-> NoSources.country_json, rl |-> NoSources.rl,
                mods |-> NoSources.mods]
    /\ reads = {}
    /\ checked = <<>>
    /\ animals_rows = <<>>
    /\ fetuses_rows = <<>>
    /\ summary_rows = <<>>
    /\ outputs = <<>>
    /\ pc = "main"
    /\ LookupIdle /\ LuaIdle /\ DueIdle

\* A ListSaves step is the step that leaves "main", and it is possible
\* exactly when pc = "main".
MainStarts == pc = "main" /\ pc' \in {"loop", "exit"}

\* A BatchIteration step is the step that advances save_pos, and it is
\* possible exactly when pc = "loop".
LoopAdvances == pc = "loop" /\ save_pos' = save_pos + 1

\* main() is one sequential process that runs until it returns or an
\* exception ends it: ListSaves and BatchIteration are taken as long as
\* they are possible.  The file system owes no step.
FairBatch ==
    InitBatch /\ [][NextBatch]_vars /\ WF_pc(MainStarts) /\ WF_save_pos(LoopAdvances)

\* ---- Claims over the batch ----

\* the last call of run_for_save found no placeables.xml
LastMissing ==
    Len(batch_log) > 0 /\ batch_log[Len(batch_log)].outcome = "missing"

\* run_for_save has been called for every listed save
AllInvoked == saves # None /\ Len(batch_log) = Len(saves)

\* a call that finds no placeables.xml writes nothing, and a call that
\* finds one that is not well-formed writes three tables without records
HandledFailures ==
    \A k \in 1..Len(batch_log) :
        /\ ~batch_log[k].isfile =>
                batch_log[k].outcome = "missing" /\ batch_log[k].written = <<>>
        /\ (batch_log[k].isfile /\ ~batch_log[k].wellformed) =>
                /\ batch_log[k].outcome = "written"
                /\ batch_log[k].written = <<<<>>, <<>>, <<>>>>

\* C11 as stated: in a batch the calls follow the list of saves one after
\* another; a call that finds no placeables.xml writes nothing and a call
\* that finds a malformed one goes on with zero records; and after a call
\* that found no placeables.xml, run_for_save is eventually called for
\* every save that remains.
C11_BatchContinues ==
    /\ [](\A k \in 1..Len(batch_log) : batch_log[k].save = saves[k])
    /\ []HandledFailures
    /\ LastMissing ~> AllInvoked

(***************************************************************************)
(* Runs over documents that vary the three signals of the species          *)
(***************************************************************************)

\* one animal in one placeable: the type and animalType attributes of the
\* animal, the <type> child of the placeable (None: no such child) and its
\* filename attribute
SignalDocument(type, animalType, label, filename) ==
    Document(<<[filename |-> filename, id |-> <<"5">>, uniqueId |-> EmptyStr,
                type |-> IF label = None THEN NoNode
                         ELSE [tag |-> "type", text |-> label],
                husbandryAnimals |->
                    Husbandry(<<[PlainAnimal EXCEPT !.type = type,
                                                    !.animalType = animalType]>>)]>>)

InitSpecies ==
    /\ \E type \in {EmptyStr, <<"C","o","w">>, <<"l","l","a","m","a">>,
                     <<"h","e","n","H","O","R","S","E">>,
                     <<"H","O","R","S","E","h","e","n">>},
          animalType \in {EmptyStr, <<"S","H","E","E","P">>},
          label \in {None, <<" ","P","i","g"," ","S","t","y"," ">>, <<"s","h","e","d">>},
          filename \in {EmptyStr, <<"m","/","G","o","a","t","s",".","x","m","l">>,
                         <<"m","/","b","a","r","n",".","x","m","l">>} :
        /\ args = [country_map |-> None, rl |-> None, species |-> None,
                   farmid |-> None]
        /\ files = [placeables |-> SignalDocument(type, animalType, label, filename),
                    country_json |-> NoSources.country_json, rl |-> NoSources.rl,
                    mods |-> NoSources.mods]
    /\ RunStart

SpecSpecies == InitSpecies /\ [][NextRun]_vars

\* ---- Claims over the species of an animal ----

\* the type attribute of the one animal of the document, under either of
\* its two names
OwnType ==
    StrOr(files.placeables.placeables[1].husbandryAnimals.clusters.animals[1].type,
          files.placeables.placeables[1].husbandryAnimals.clusters.animals[1].animalType)

\* the type label of its placeable
TypeLabel == _text(files.placeables.placeables[1].type)

\* the places in the synonym table of the keys found in text, ignoring case
Matching(text) ==
    {i \in 1..Len(SPECIES_KEYS) : Contains(Lower(text), SPECIES_KEYS[i][1])}

\* the tag of the first of them in table order
TagOfFirst(text) ==
    SPECIES_KEYS[CHOOSE i \in Matching(text) : \A j \in Matching(text) : i <= j][2]

\* C14: the species of an emitted animal is the tag of the first synonym
\* key, in table order, found in its own type attribute; when the attribute
\* is absent or holds no key, that of the first key found in the type label
\* of its placeable; when that holds none either, that of the first key
\* found in the file name; the empty string when no signal holds a key.  It
\* is always empty or a canonical tag.
C14_SignalPriority ==
    (RunDone /\ Len(animals_rows) = 1) =>
        /\ animals_rows[1].species \in SpeciesTags \cup {EmptyStr}
        /\ animals_rows[1].species =
              IF Matching(OwnType) # {} THEN TagOfFirst(OwnType)
              ELSE IF Matching(TypeLabel) # {} THEN TagOfFirst(TypeLabel)
              ELSE IF Matching(files.placeables.placeables[1].filename) # {}
                   THEN TagOfFirst(files.placeables.placeables[1].filename)
              ELSE EmptyStr

\* C14 witness: the type HORSEhen holds two keys, the placeable is a pig sty
\* in a file named after goats: the species is chickens, the tag of "hen",
\* which stands before "horse" in the table.
C14_Witness ==
    /\ RunDone
    /\ Len(animals_rows) = 1
    /\ OwnType = <<"H","O","R","S","E","h","e","n">>
    /\ Matching(TypeLabel) # {}
    /\ Matching(files.placeables.placeables[1].filename) # {}
    /\ animals_rows[1].species = s_chickens

(***************************************************************************)
(* Runs over documents that vary the attribute strings of an animal        *)
(***************************************************************************)

\* cows of every age string, pregnant for every duration string (None: not
\* pregnant)
FieldAnimals ==
    {[PlainAnimal EXCEPT
        !.type = <<"C","O","W">>, !.age = age,
        !.pregnancy = IF duration = None THEN NoNode
                      ELSE Pregnancy(duration, <<"list", 1>>)] :
        age \in {EmptyStr, <<"1","2">>, <<"1",".","5">>, <<"x">>, <<"i","n","f">>,
                 <<"n","a","n">>},
        duration \in {None, <<"1","1","4">>, <<"x">>, <<"i","n","f">>}}

InitFields ==
    /\ \E animals \in SeqsUpTo(FieldAnimals, MaxAnimals) :
        /\ args = [country_map |-> None, rl |-> None, species |-> None,
                   farmid |-> None]
        /\ files = [placeables |-> TwoSheds(animals),
                    country_json |-> NoSources.country_json, rl |-> NoSources.rl,
                    mods |-> NoSources.mods]
    /\ RunStart

SpecFields == InitFields /\ [][NextRun]_vars

(***************************************************************************)
(* Runs over documents that vary the groups and the values to average      *)
(***************************************************************************)

MaxSheds == 3

\* <placeable filename=...><type>...</type> holding one animal; k picks the
\* enclosure: 1 and 2 share a file name and differ in type, 3 sorts first
GroupShell(k, animal) ==
    [filename |-> IF k = 3 THEN <<"a">> ELSE <<"s">>,
     id |-> EmptyStr, uniqueId |-> EmptyStr,
     type |-> IF k = 3 THEN NoNode
              ELSE [tag |-> "type", text |-> <<"t">> \o NatToStr(k)],
     husbandryAnimals |-> Husbandry(<<animal>>)]

\* an animal of the given type and breed with the values of profile v:
\* 0 carries no parseable value, 1 and 3 carry every value, 2 lacks health
ValueAnimal(t, breed, v) ==
    [PlainAnimal EXCEPT
        !.type = t, !.subType = breed,
        !.age = IF v = 0 THEN EmptyStr ELSE NatToStr(v),
        !.health = IF v = 0 THEN <<"x">> ELSE IF v = 2 THEN EmptyStr
                   ELSE NatToStr(v + 1),
        !.genetics = IF v = 0 THEN NoNode ELSE Genetics(v)]

\* placeables that differ in enclosure, species and breed
OrderPool ==
    {GroupShell(k, ValueAnimal(tb[1], tb[2], 1)) :
        k \in 1..3,
        tb \in {<<<<"C","O","W">>, <<"a">>>>, <<<<"C","O","W">>, <<"b">>>>,
                <<<<"p","i","g">>, <<"a">>>>}}

\* placeables that differ in enclosure and in the values of their animal
MeanPool ==
    {GroupShell(k, ValueAnimal(<<"C","O","W">>, <<"a">>, v)) :
        k \in {1, 3}, v \in 0..3}

InitSum ==
    /\ \E placeables \in SeqsUpTo(OrderPool, MaxSheds) \cup SeqsUpTo(MeanPool, MaxSheds) :
        /\ args = [country_map |-> None, rl |-> None, species |-> None,
                   farmid |-> None]
        /\ files = [placeables |-> Document(placeables),
                    country_json |-> NoSources.country_json, rl |-> NoSources.rl,
                    mods |-> NoSources.mods]
    /\ RunStart

SpecSum == InitSum /\ [][NextRun]_vars

(***************************************************************************)
(* Runs that vary the sources of the country-code table                    *)
(***************************************************************************)

\* what a mods directory, or the path given with --rl, can hold; a table
\* has names and ISO codes (LuaSample), names only or codes only
Artifacts ==
    LET LuaNameOnly ==
            <<LuaHeader, LuaOpen, LuaIndex, LuaOpen, LuaCountry, LuaClose, LuaClose>>
        LuaCodeOnly ==
            <<LuaHeader, LuaOpen, LuaIndex, LuaOpen, LuaCode, LuaClose, LuaClose>>
    IN
    {[name |-> <<"F", "S", "2", "5", "_", "R", "e", "a", "l", "i", "s", "t", "i", "c", "L", "i", "v", "e", "s", "t", "o", "c", "k", ".", "z", "i", "p">>, fs |-> "file",
      luas |-> <<LuaNameOnly>>],
     [name |-> <<"r", "e", "a", "l", "i", "s", "t", "i", "c", "_", "l", "i", "v", "e", "s", "t", "o", "c", "k">>, fs |-> "dir",
      luas |-> <<Unreadable, LuaSample>>],
     [name |-> <<"a", ".", "z", "i", "p">>, fs |-> "file", luas |-> <<LuaSample>>],
     [name |-> <<"b", ".", "Z", "I", "P">>, fs |-> "file", luas |-> <<LuaCodeOnly>>],
     [name |-> <<"c", ".", "z", "i", "p">>, fs |-> "file", luas |-> <<Unreadable>>],
     [name |-> <<"d">>, fs |-> "dir", luas |-> <<>>],
     [name |-> <<"e", ".", "t", "x", "t">>, fs |-> "file", luas |-> <<>>]}

\* no mods directory, or one whose os.listdir has entries of distinct names
ModsDirs ==
    {NoSources.mods}
    \cup {[isdir |-> TRUE, entries |-> l] :
            l \in {l \in SeqsUpTo(Artifacts, MaxEntries) :
                    \A i, j \in 1..Len(l) : i # j => l[i].name # l[j].name}}

\* --rl and what lies at that path
RlChoices ==
    {<<None, NoSources.rl>>, <<EmptyStr, NoSources.rl>>,
     <<<<"g", "o", "n", "e">>, [name |-> <<"g", "o", "n", "e">>, fs |-> "none", luas |-> <<>>]>>}
    \cup {<<a.name, a>> : a \in Artifacts}

\* --country-map and what that file holds
JsonChoices ==
    {<<None, NoSources.country_json>>, <<<<"c">>, NoSources.country_json>>,
     <<<<"c">>, [readable |-> TRUE, data |-> EmptyMap]>>, <<<<"c">>, JsonOverride>>}

\* placeables.xml with one cow born in country 1, no such file, or a file
\* that is not well-formed
Documents ==
    {Document(<<BarnShell(<<FilterAnimal(<<"C","O","W">>, <<"1">>, <<"none", 0>>)>>)>>),
     [isfile |-> FALSE, wellformed |-> FALSE, placeables |-> <<>>],
     [isfile |-> TRUE, wellformed |-> FALSE, placeables |-> <<>>]}

InitSources ==
    /\ \E jc \in JsonChoices, rc \in RlChoices, mods \in ModsDirs, document \in Documents :
        /\ args = [country_map |-> jc[1], rl |-> rc[1], species |-> None,
                   farmid |-> None]
        /\ files = [placeables |-> document, country_json |-> jc[2], rl |-> rc[2],
                    mods |-> mods]
    /\ RunStart

SpecSources == InitSources /\ [][NextRun]_vars


\* ---- Claims over the sources of the country-code table ----

\* the call got past the check for placeables.xml
RunRan == pc \in {"done", "raised"}

\* --rl names a path
RlGiven == args.rl # None /\ args.rl # EmptyStr

\* what the --country-map file provides
OverrideGiven ==
    IF args.country_map # None /\ args.country_map # EmptyStr
          /\ files.country_json.readable
    THEN files.country_json.data
    ELSE EmptyMap

\* C1: the maps handed to parse_placeables come from one source, the first
\* of override file, --rl path and mods directory scan that applies: a
\* non-empty override leaves the name and ISO maps empty and neither the
\* --rl path nor the mods directory is read; otherwise a given --rl path is
\* the only source and the mods directory is never scanned, even when the
\* path yields nothing; otherwise the scan of the mods directory is the source.
C1_OneSource ==
    RunRan =>
        /\ json_map = OverrideGiven
        /\ DOMAIN json_map # {} =>
                /\ name_map = EmptyMap /\ iso_map = EmptyMap
                /\ "rl" \notin reads /\ "mods" \notin reads
        /\ (DOMAIN json_map = {} /\ RlGiven) =>
                /\ <<name_map, iso_map>> = _load_area_codes_from_rl_path(files.rl)
                /\ "rl" \in reads
        /\ (DOMAIN json_map = {} /\ ~RlGiven) =>
                /\ name_map = load_area_codes_from_rl(files.mods)[1]
                /\ iso_map = load_area_codes_from_rl(files.mods)[2]
                /\ "mods" \in reads /\ "rl" \notin reads
        /\ RlGiven => "mods" \notin reads

\* --rl names a mod without a readable table while the mods directory holds
\* one that has it: the maps stay empty and the directory is not scanned.
C1_Witness ==
    /\ RunRan
    /\ DOMAIN json_map = {}
    /\ RlGiven
    /\ DOMAIN _load_area_codes_from_rl_path(files.rl)[1] = {}
    /\ DOMAIN load_area_codes_from_rl(files.mods)[1] # {}
    /\ name_map = EmptyMap
    /\ reads = {"country_map", "rl"}

\* ---- Claims over the scan of the mods directory ----

\* the call scanned an existing mods directory
Scanned == RunRan /\ "mods" \in reads /\ files.mods.isdir

\* os.listdir(mods_dir)
Entries == files.mods.entries

\* the position in the listing of the entry called n
EntryAt(n) == CHOOSE i \in 1..Len(Entries) : Entries[i].name = n

\* how many entries the first loop examined: the list checked holds them
\* first, and the archives of the second loop after all of them
PrimaryCount == IF Len(checked) <= Len(Entries) THEN Len(checked) ELSE Len(Entries)

\* the entry examined at position p of checked
Examined(p) == Entries[EntryAt(checked[p])]

\* entry i of the listing is due before entry j: a name that suggests the
\* mod goes before one that does not, and the listing decides otherwise
Before(i, j) ==
    \/ _looks_like_rl_mod(Entries[i].name) /\ ~_looks_like_rl_mod(Entries[j].name)
    \/ /\ _looks_like_rl_mod(Entries[i].name) = _looks_like_rl_mod(Entries[j].name)
       /\ i < j

\* what parsing the entry gives
Yields(e) == _load_area_codes_from_rl_path(e)

HasNames(e) == DOMAIN Yields(e)[1] # {}

HasMapping(e) == DOMAIN Yields(e)[1] # {} \/ DOMAIN Yields(e)[2] # {}

\* the first loop examines entries of the listing, none twice, those whose
\* name suggests the mod first and in directory order otherwise, and skips
\* none that is due before an examined one
ExaminedInOrder ==
    /\ \A p \in 1..PrimaryCount : \E i \in 1..Len(Entries) : Entries[i].name = checked[p]
    /\ \A p, q \in 1..PrimaryCount : p < q => Before(EntryAt(checked[p]), EntryAt(checked[q]))
    /\ \A p \in 1..PrimaryCount : \A i \in 1..Len(Entries) :
            Before(i, EntryAt(checked[p])) => \E q \in 1..(p - 1) : checked[q] = Entries[i].name

\* C13 as stated: the scan examines the entries in that order, and the
\* first examined entry whose parse yields any mapping, a name or an ISO
\* code, ends it: no entry before the last examined one yields a mapping,
\* and when some entry yields one the last examined entry does, its maps
\* are the result and nothing is examined after it.
C13_FirstMappingWins ==
    Scanned =>
        /\ ExaminedInOrder
        /\ \A p \in 1..(PrimaryCount - 1) : ~HasMapping(Examined(p))
        /\ IF \E i \in 1..Len(Entries) : HasMapping(Entries[i])
           THEN /\ Len(checked) = PrimaryCount
                /\ HasMapping(Examined(PrimaryCount))
                /\ <<name_map, iso_map>> = Yields(Examined(PrimaryCount))
           ELSE PrimaryCount = Len(Entries)

\* C13 amended: the same with "yields at least one country name": an entry
\* whose table gives ISO codes but no names does not end the scan.
C13_FirstNamesWin ==
    Scanned =>
        /\ ExaminedInOrder
        /\ \A p \in 1..(PrimaryCount - 1) : ~HasNames(Examined(p))
        /\ IF \E i \in 1..Len(Entries) : HasNames(Entries[i])
           THEN /\ Len(checked) = PrimaryCount
                /\ HasNames(Examined(PrimaryCount))
                /\ <<name_map, iso_map>> = Yields(Examined(PrimaryCount))
           ELSE PrimaryCount = Len(Entries)

\* C13 witness: the listing puts an archive with a full table before the
\* mod archive; the mod archive is examined first, its table wins and the
\* other archive is never examined.
C13_Witness ==
    /\ Scanned
    /\ Len(Entries) = 2
    /\ ~_looks_like_rl_mod(Entries[1].name) /\ HasNames(Entries[1])
    /\ _looks_like_rl_mod(Entries[2].name) /\ HasNames(Entries[2])
    /\ checked = <<Entries[2].name>>
    /\ <<name_map, iso_map>> = Yields(Entries[2])
    /\ Yields(Entries[2]) # Yields(Entries[1])

\* what the first loop alone returns
PrimaryAlone == PrimaryPass(ScanOrder(Entries), 1)

\* the archives of the listing, in order
RECURSIVE Archives(_)
Archives(l) ==
    IF Len(l) = 0 THEN <<>>
    ELSE IF IsZipFile(l[1]) THEN <<l[1].name>> \o Archives(Tail(l))
    ELSE Archives(Tail(l))

\* C18: the maps of the scan are the maps of its first loop alone; when the
\* first loop has examined every entry without finding names, the second
\* loop examines every archive of the listing again, finds no names either,
\* and both maps are empty.
C18_SecondPassFindsNothing ==
    Scanned =>
        /\ name_map = PrimaryAlone[1]
        /\ iso_map = PrimaryAlone[2]
        /\ (\A i \in 1..Len(Entries) : ~HasNames(Entries[i])) =>
                /\ name_map = EmptyMap /\ iso_map = EmptyMap
                /\ checked = [p \in 1..Len(Entries) |-> ScanOrder(Entries)[p].name]
                                \o Archives(Entries)

\* C18 witness: no entry gives names, an archive holds a table with ISO
\* codes only; the second loop opens it again and the maps stay empty.
C18_Witness ==
    /\ Scanned
    /\ \A i \in 1..Len(Entries) : ~HasNames(Entries[i])
    /\ \E i \in 1..Len(Entries) : IsZipFile(Entries[i]) /\ HasMapping(Entries[i])
    /\ Len(checked) > Len(Entries)
    /\ name_map = EmptyMap /\ iso_map = EmptyMap

\* ---- Claims over the summary ----

\* the mean columns of a summary row and the animal column each averages
MeanFields ==
    {<<"avg_age_months", "age">>, <<"avg_health", "animal_health">>,
     <<"avg_gen_metabolism", "animal_gen_metabolism">>,
     <<"avg_gen_quality", "animal_gen_quality">>,
     <<"avg_gen_health", "animal_gen_health">>,
     <<"avg_gen_fertility", "animal_gen_fertility">>,
     <<"avg_gen_productivity", "animal_gen_productivity">>}

\* the animal rows of the group a summary row stands for
Members(r) ==
    {i \in 1..Len(animals_rows) :
        GroupKey(animals_rows[i]) = <<r.current_shed, r.shed_type, r.species, r.breed>>}

\* a cell that holds a decimal numeral
IsNumeral(cell) == cell # EmptyStr /\ AllDigits(cell)

\* the members of the group with a numeral in column c
WithValue(r, c) == {i \in Members(r) : IsNumeral(animals_rows[i][c])}

RECURSIVE SumColumn(_, _)
SumColumn(S, c) ==
    IF S = {} THEN 0
    ELSE LET i == CHOOSE x \in S : TRUE
         IN DigitsVal(animals_rows[i][c]) + SumColumn(S \ {i}, c)

\* total / n to two decimals
MeanText(total, n) ==
    LET q == RoundHalfEven(100 * total, n)
    IN NatToStr(q \div 100) \o <<".">> \o ZeroPad(NatToStr(q % 100), 2)

\* the cells of the model's documents are numerals, blank or the letter x
CellsAreSimple ==
    \A i \in 1..Len(animals_rows) : \A f \in MeanFields :
        IsNumeral(animals_rows[i][f[2]]) \/ animals_rows[i][f[2]] \in {EmptyStr, <<"x">>}

\* C7: each mean of a summary row is the arithmetic mean, to two decimals,
\* of the values of the members of its group that have a parseable value in
\* that column, and it is empty when no member has one.
C7_MeanOfParseable ==
    RunDone =>
        /\ CellsAreSimple
        /\ \A g \in 1..Len(summary_rows) : \A f \in MeanFields :
            LET r == summary_rows[g]
                have == WithValue(r, f[2])
            IN r[f[1]] = IF have = {} THEN EmptyStr
                         ELSE MeanText(SumColumn(have, f[2]), Cardinality(have))

\* A group of three: one member has every value, one lacks health, one has
\* no parseable value; its mean health is that of the single value.
C7_Witness ==
    /\ RunDone
    /\ Len(summary_rows) = 1
    /\ Cardinality(Members(summary_rows[1])) = 3
    /\ Cardinality(WithValue(summary_rows[1], "age")) = 2
    /\ Cardinality(WithValue(summary_rows[1], "animal_health")) = 1
    /\ summary_rows[1].avg_age_months = <<"2", ".", "5", "0">>
    /\ summary_rows[1].avg_health = <<"4", ".", "0", "0">>

Reverse(l) == [i \in 1..Len(l) |-> l[Len(l) + 1 - i]]

\* one summary row for every group of animal rows, and no other row
OneRowPerKey ==
    /\ \A i \in 1..Len(animals_rows) :
        \E g \in 1..Len(summary_rows) : i \in Members(summary_rows[g])
    /\ \A g \in 1..Len(summary_rows) : Members(summary_rows[g]) # {}
    /\ \A g, h \in 1..Len(summary_rows) :
        g # h => Members(summary_rows[g]) # Members(summary_rows[h])

\* the position of the first animal row of the group of a summary row
FirstSeen(r) == CHOOSE i \in Members(r) : \A j \in Members(r) : i <= j

\* C8 as stated: one row per distinct key, in ascending order of
\* (current_shed, species, breed), and the order of the rows does not depend
\* on the order in which the groups were first seen.
C8_OrderIndependent ==
    RunDone =>
        /\ OneRowPerKey
        /\ \A g, h \in 1..Len(summary_rows) :
            g < h => ~KeyLess(SortKey(summary_rows[h]), SortKey(summary_rows[g]))
        /\ summarize(Reverse(animals_rows)) = summary_rows

\* C8: one row per distinct key, in ascending order of (current_shed,
\* species, breed); rows that agree on these three and differ in shed_type
\* stay in the order in which their groups were first seen.
C8_SortedStable ==
    RunDone =>
        /\ OneRowPerKey
        /\ \A g, h \in 1..Len(summary_rows) :
            g < h =>
                \/ KeyLess(SortKey(summary_rows[g]), SortKey(summary_rows[h]))
                \/ /\ SortKey(summary_rows[g]) = SortKey(summary_rows[h])
                   /\ FirstSeen(summary_rows[g]) < FirstSeen(summary_rows[h])

\* Three groups seen in descending order of enclosure, two of them alike but
\* for the enclosure type: the enclosure that sorts first is emitted first,
\* the other two in the order seen.
C8_Witness ==
    /\ RunDone
    /\ Len(animals_rows) = 3
    /\ Len(summary_rows) = 3
    /\ animals_rows[1].shed_type = <<"t", "2">>
    /\ animals_rows[2].shed_type = <<"t", "1">>
    /\ animals_rows[3].current_shed = <<"a">>
    /\ SortKey(animals_rows[1]) = SortKey(animals_rows[2])
    /\ summary_rows[1].current_shed = <<"a">>
    /\ summary_rows[2].shed_type = <<"t", "2">>
    /\ summary_rows[3].shed_type = <<"t", "1">>

\* ---- Claims over attribute strings ----

\* C9: no exception leaves parse_placeables or summarize, whatever strings
\* the animals carry: the call never ends in an uncaught exception.
C9_NoException == pc # "raised"

====
